---- MODULE Spec2Model ----
(***************************************************************************)
(* A model of skink: the two-phase lifecycle over a node tree              *)
(* (Skink.InitNode, Skink.StartNode, ForEach, FindNodes and                *)
(* ConcurrentErrors) and the URI-keyed class registry (GetClassByURI,      *)
(* RegisterClassString, CreateDynamicClass).                               *)
(*                                                                         *)
(* Specifications:                                                         *)
(*   Spec     the lifecycle: InitNode(root) and then StartNode(root) over  *)
(*            every tree of at most MaxNodes nodes, goroutine by goroutine *)
(*   SpecReg  the class registry used by NumCallers concurrent callers     *)
(*   SpecMap  one node collection (nodemap) and its caller                 *)
(*   SpecAttr one attribute map (NodeAttrMap) and its caller               *)
(*   SpecBuild one call of Skink.CreateNode over a definition tree, with   *)
(*            other goroutines registering classes meanwhile               *)
(*   SpecLoad RegisterURILoader and CreateNodeDef on one Skink             *)
(*   SpecStart the initialisation of the package at process start          *)
(*   SpecLive the lifecycle under a fair scheduler                         *)
(*   SpecString the String class: Alloc, Init, CreateNode                  *)
(*   SpecPath GetPath on trees of named nodes                              *)
(***************************************************************************)
EXTENDS Integers, Sequences, FiniteSets, TLC

\* ------------------------------------------------------------------------
\* Bounds of the model
\* ------------------------------------------------------------------------

\* The largest tree the lifecycle runs over.
MaxNodes == 3

\* ------------------------------------------------------------------------
\* State
\* ------------------------------------------------------------------------

VARIABLES
    \* The tree handed to the lifecycle (built before; read-only here).
    parent,       \* parent[n]: Node.Parent(); 0 is the nil Node (n is the root)
    kind,         \* kind[n]: "basic" (BasicNode: Children() is a nodemap) or
                  \*          "leaf"  (LeafNode, StringNode: Children() is nil)
    initNoder,    \* initNoder[n]: the node's type implements InitNoder
    startNoder,   \* startNoder[n]: the node's type implements StartNoder
    \* The process.
    fault,        \* a goroutine panicked: the process is gone
    mainpc,       \* the caller: "init", "start", "startwait", "done"
    \* Init phase: one call of Skink.InitNode per node.
    ipc,          \* ipc[n]: where the call InitNode(n) and its goroutine are
    idx,          \* idx[n]: i of ForEachInSlice's iterator over n's children
    wg,           \* wg[n]: counter of the WaitGroup of n's ForEach
    ce,           \* ce[n]: ConcurrentErrors.errors of n's ForEach
    tmp,          \* tmp[n]: ce.errors as unit n read it inside ce.Add
    agg,          \* agg[n]: what n's ForEach returned
    result,       \* result[n]: what InitNode(n) returned
    initCalls,    \* initCalls[n]: calls of n's own InitNoder.InitNode
    ires,         \* ires[n]: what n's own InitNoder.InitNode returned
    initRet,      \* what InitNode(root) returned to the caller
    \* Start phase: one call of Skink.StartNode on the root.
    queue,        \* the nodes slice of FindNodes' iterator
    swg,          \* counter of StartNode's WaitGroup
    sce,          \* ConcurrentErrors.errors of StartNode
    spc,          \* spc[n]: where the goroutine started for n is
    stmp,         \* stmp[n]: ce.errors as n's goroutine read it inside ce.Add
    sres,         \* sres[n]: what n's StartNoder.StartNode returned
    dispatched,   \* dispatched[n]: go statements executed for n
    startCalls,   \* startCalls[n]: calls of n's StartNoder.StartNode
    startArg,     \* startArg[n]: the arguments of that call
    startRet,     \* what StartNode(root) returned
    \* The class registry and its callers.
    classRegistry,  \* the map classRegistry: lower-cased URI string -> Class
    heap,           \* the nodeclass objects CreateDynamicClass allocated
    regLog,         \* every insertion made: the URI string as given, the class
    rpc,            \* rpc[p]: where caller p is inside CreateDynamicClass
    arg,            \* arg[p]: the uri of p's running CreateDynamicClass
    newcls,         \* newcls[p]: the cls that call has allocated
    last,           \* the latest call that returned, and what it returned
    calls,          \* the calls made so far
    \* A node collection (nodemap) and its user.
    index,          \* nodemap.index: lower-cased name -> position (from 0)
    pairs,          \* nodemap.pairs: the namenode values in order
    mfault,         \* a call on the collection panicked
    mlast,          \* the latest call on the collection and what it returned
    \* An attribute map (NodeAttrMap) and its user.
    attrs,          \* the NodeAttrMap: Node, NodeTypeAttrMap, dynamic
    afault,         \* a call on the attribute map panicked
    alast,          \* the latest call on the attribute map, what it returned
    \* The factory: one call of Skink.CreateNode and the calls it makes.
    defs,           \* the NodeDef tree: defs[d] is a NodeDef, 1 the root
    built,          \* the nodes Alloc has made, in order
    stack,          \* the calls of CreateNode at work, the latest last
    bcall,          \* the caller: what it passed and what was returned
    blog,           \* the definitions CreateNode was called for, in order
    \* Loading: the URI loaders of a Skink and the caller of CreateNodeDef.
    uriloaders,     \* Skink.uriloaders: scheme -> the uriloaders, in order
    registered,     \* the RegisterURILoader calls made after createSkink
    loaded,         \* the latest CreateNodeDef call and what it returned
    \* The start of the process.
    startup,        \* how far the initialisation of the package has come
    \* The String class and its caller.
    strcall,        \* the latest call made with the String class
    \* A tree of named nodes and the caller of GetPath.
    pnodes,         \* pnodes[n]: the Name() and the Parent() of node n
    pathcall        \* the latest GetPath call and what it returned

treeVars == <<parent, kind, initNoder, startNoder>>
initVars == <<ipc, idx, wg, ce, tmp, agg, result, initCalls, ires,
              initRet>>
startVars == <<queue, swg, sce, spc, stmp, sres, dispatched, startCalls,
               startArg, startRet>>
lifeVars == <<treeVars, fault, mainpc, initVars, startVars>>

regVars == <<classRegistry, heap, regLog, rpc, arg, newcls, last, calls>>

mapVars == <<index, pairs, mfault, mlast>>

attrVars == <<attrs, afault, alast>>

buildVars == <<defs, built, stack, bcall, blog>>

loadVars == <<uriloaders, registered, loaded>>

procVars == <<startup>>

stringVars == <<strcall>>

pathVars == <<pnodes, pathcall>>

\* What the lifecycle leaves alone, what the registry leaves alone, what
\* the node collection leaves alone and what the attribute map leaves alone.
notLifeVars ==
    <<regVars, mapVars, attrVars, buildVars, loadVars, procVars,
      stringVars, pathVars>>
notRegVars ==
    <<lifeVars, mapVars, attrVars, buildVars, loadVars, procVars,
      stringVars, pathVars>>
notMapVars ==
    <<lifeVars, regVars, attrVars, buildVars, loadVars, procVars,
      stringVars, pathVars>>
notAttrVars ==
    <<lifeVars, regVars, mapVars, buildVars, loadVars, procVars,
      stringVars, pathVars>>
notLoadVars ==
    <<lifeVars, regVars, mapVars, attrVars, buildVars, procVars,
      stringVars, pathVars>>

\* What the startup leaves alone; the registry it sets up.
notProcVars ==
    <<lifeVars, mapVars, attrVars, buildVars, loadVars, stringVars,
      pathVars>>

\* What the calls with the String class leave alone, the registry aside.
notStringVars ==
    <<lifeVars, mapVars, attrVars, buildVars, loadVars, procVars,
      pathVars>>

\* What the factory leaves alone; the registry it uses.
notBuildVars ==
    <<lifeVars, mapVars, attrVars, loadVars, procVars,
      stringVars, pathVars>>

\* What no step of the lifecycle changes: the tree and all the rest.
restVars == <<notLifeVars, treeVars>>

\* What GetPath leaves alone.
notPathVars ==
    <<lifeVars, regVars, mapVars, attrVars, buildVars, loadVars, procVars,
      stringVars>>

vars ==
    <<lifeVars, regVars, mapVars, attrVars, buildVars, loadVars, procVars,
      stringVars, pathVars>>

\* ------------------------------------------------------------------------
\* Values
\* ------------------------------------------------------------------------

\* The nil Node (and the nil parent of a root).
NilNode == 0

\* The nil error.
NilErr == [kind |-> "nil"]

\* A call that has not returned yet.
Pending == [kind |-> "pending"]

\* The nil *ConcurrentErrors.
NilCE == [kind |-> "nilce"]

\* A non-nil *ConcurrentErrors holding errs; an entry c is the error unit c
\* returned.
CE(errs) == [kind |-> "ce", errors |-> errs]

\* The error a node's own InitNoder.InitNode returned.
InitErr(n) == [kind |-> "initerr", node |-> n]

\* errors.ErrorfWithCause(err, "failed to initialize node ..."): the error
\* InitNode returns when the children's ForEach returned err.
Wrapped(n, err) == [kind |-> "wrapped", node |-> n, cause |-> err]

\* The error a node's StartNoder.StartNode returned.
StartErr(n) == [kind |-> "starterr", node |-> n]

\* The orchestrator context every call is made on.
Sk == "sk"

Nodes == DOMAIN parent

\* The root handed to InitNode and StartNode: node 1, or nil for no tree.
Root == IF Nodes = {} THEN NilNode ELSE 1

ChildSet(n) == {c \in Nodes : parent[c] = n}

RECURSIVE SortedSeq(_)
SortedSeq(S) ==
    IF S = {} THEN <<>>
    ELSE LET m == CHOOSE x \in S : \A y \in S : x <= y
         IN  <<m>> \o SortedSeq(S \ {m})

\* node.Children().Nodes(): the children in the order of the nodemap, which is
\* the order they were attached in.
ChildrenNodes(n) == SortedSeq(ChildSet(n))

RECURSIVE Count(_, _)
Count(x, s) ==
    IF s = <<>> THEN 0
    ELSE (IF Head(s) = x THEN 1 ELSE 0) + Count(x, Tail(s))

\* ------------------------------------------------------------------------
\* Pure pieces of the code
\* ------------------------------------------------------------------------

\* A Wait that does not wait.
WaitGroupZeroNoWait(c) == TRUE

\* wg.Wait() returns when the counter is zero.
WaitGroupZero(c) == c = 0

\* A goroutine started without wg.Add(1).
ForEachWgAddMissing(c) == c

\* wg.Add(1) before a goroutine is started.
ForEachWgAdd(c) == c + 1

\* wg.Add(1) before a goroutine of StartNode is started.
StartWgAdd(c) == c + 1

\* ConcurrentErrors.Add on the slice the caller read.
ConcurrentErrorsAdd(errs, e) == Append(errs, e)

\* ForEach returning its collection even when it is empty.
ForEachReturnAlways(errs) == CE(errs)

\* The end of ForEach: nil when no error was collected, else the collection.
ForEachReturn(errs) == IF Len(errs) = 0 THEN NilCE ELSE CE(errs)

\* The end of StartNode: the same test.
StartNodeReturn(errs) == IF Len(errs) = 0 THEN NilErr ELSE CE(errs)

\* InitNode going on to the node's own initializer whatever ForEach returned.
ChildrenFailedIgnored(err) == FALSE

\* InitNode's test of what ForEachInSlice returned.
ChildrenFailed(err) == err # NilCE

\* The type assertion node.(InitNoder).
IsInitNoder(n) == initNoder[n]

\* The type assertion child.(StartNoder).
IsStartNoder(n) == startNoder[n]

\* An iterator that stops one node early.
SliceIterHasNextShort(nodes, i) == i + 1 < Len(nodes)

\* The iterator of ForEachInSlice: whether there is a next node.
SliceIterHasNext(nodes, i) == i < Len(nodes)

\* An iterator that never queues the children.
FindNodesAdvanceNoChildren(nodes) == Tail(nodes)

\* One step of FindNodes' iterator on a node with a child collection.
FindNodesAdvance(nodes) == Tail(nodes) \o ChildrenNodes(Head(nodes))

\* The arguments the goroutine of StartNode calls sn.StartNode with.
StarterArgs(sn) == [self |-> sn, sk |-> Sk, root |-> Root]

\* Calling a method on what Children() returned faults when that is nil, and
\* so does calling Children() on the nil Node.
ChildrenIsNil(n) == n = NilNode \/ kind[n] = "leaf"

\* ------------------------------------------------------------------------
\* Initial states
\* ------------------------------------------------------------------------

ParentMaps(k) ==
    {p \in [1..k -> 0..k] : \A n \in 1..k : p[n] = (IF n = 1 THEN 0 ELSE p[n])
                                          /\ (n > 1 => p[n] \in 1..(n-1))}

KindMaps(k, p) ==
    {f \in [1..k -> {"basic", "leaf"}] :
        \A n \in 1..k : f[n] = "leaf" => ~\E c \in 1..k : p[c] = n}

LifeInit ==
    /\ \E k \in 0..MaxNodes :
         /\ parent \in ParentMaps(k)
         /\ kind \in KindMaps(k, parent)
         /\ initNoder \in [1..k -> BOOLEAN]
         /\ startNoder \in [1..k -> BOOLEAN]
    /\ fault = FALSE
    /\ mainpc = "init"
    /\ ipc = [n \in Nodes |-> IF n = 1 THEN "called" ELSE "none"]
    /\ idx = [n \in Nodes |-> 0]
    /\ wg = [n \in Nodes |-> 0]
    /\ ce = [n \in Nodes |-> <<>>]
    /\ tmp = [n \in Nodes |-> <<>>]
    /\ agg = [n \in Nodes |-> Pending]
    /\ result = [n \in Nodes |-> Pending]
    /\ initCalls = [n \in Nodes |-> 0]
    /\ ires = [n \in Nodes |-> Pending]
    /\ initRet = Pending
    /\ queue = <<>>
    /\ swg = 0
    /\ sce = <<>>
    /\ spc = [n \in Nodes |-> "none"]
    /\ stmp = [n \in Nodes |-> <<>>]
    /\ sres = [n \in Nodes |-> Pending]
    /\ dispatched = [n \in Nodes |-> 0]
    /\ startCalls = [n \in Nodes |-> 0]
    /\ startArg = [n \in Nodes |-> Pending]
    /\ startRet = Pending

\* ------------------------------------------------------------------------
\* Init phase
\* ------------------------------------------------------------------------

\* InitNode(nil) returns nil at once.
InitNodeNil ==
    /\ ~fault
    /\ mainpc = "init"
    /\ Root = NilNode
    /\ initRet = Pending
    /\ initRet' = NilErr
    /\ UNCHANGED <<restVars, fault, mainpc, ipc, idx, wg, ce, tmp, agg, result,
                   initCalls, ires, startVars>>

\* InitNode(n) begins: node.Children().Nodes() is evaluated and ForEachInSlice
\* builds its iterator, its WaitGroup and its ConcurrentErrors. With no child
\* the loop of ForEach ends at its first test and wg.Wait() is next.
InitNodeEnter(n) ==
    /\ ~fault
    /\ ipc[n] = "called"
    /\ IF ChildrenIsNil(n)
       THEN /\ fault' = TRUE
            /\ UNCHANGED <<ipc, idx, wg, ce>>
       ELSE /\ ipc' = [ipc EXCEPT ![n] =
                        IF SliceIterHasNext(ChildrenNodes(n), 0)
                        THEN "dispatch" ELSE "wait"]
            /\ idx' = [idx EXCEPT ![n] = 0]
            /\ wg' = [wg EXCEPT ![n] = 0]
            /\ ce' = [ce EXCEPT ![n] = <<>>]
            /\ UNCHANGED fault
    /\ UNCHANGED <<restVars, mainpc, tmp, agg, result, initCalls, ires, initRet,
                   startVars>>

\* One turn of ForEach's loop: the next child gets wg.Add(1) and a goroutine.
\* When that was the last child the iterator's next test ends the loop and
\* wg.Wait() is next.
ForEachDispatch(n) ==
    /\ ~fault
    /\ ipc[n] = "dispatch"
    /\ SliceIterHasNext(ChildrenNodes(n), idx[n])
    /\ LET c == ChildrenNodes(n)[idx[n] + 1]
       IN  /\ idx' = [idx EXCEPT ![n] = @ + 1]
           /\ wg' = [wg EXCEPT ![n] = ForEachWgAdd(@)]
           /\ ipc' = [ipc EXCEPT ![c] = "called",
                                 ![n] = IF SliceIterHasNext(ChildrenNodes(n),
                                                            idx[n] + 1)
                                        THEN "dispatch" ELSE "wait"]
    /\ UNCHANGED <<restVars, fault, mainpc, ce, tmp, agg, result, initCalls,
                   ires, initRet, startVars>>

\* wg.Wait() returns, ForEach returns, and InitNode acts on what it returned:
\* the wrapped aggregate, or the call of the node's own initializer, or nil.
ForEachWait(n) ==
    /\ ~fault
    /\ ipc[n] = "wait"
    /\ WaitGroupZero(wg[n])
    /\ LET err == ForEachReturn(ce[n])
       IN  /\ agg' = [agg EXCEPT ![n] = err]
           /\ IF ChildrenFailed(err)
              THEN /\ result' = [result EXCEPT ![n] = Wrapped(n, err)]
                   /\ ipc' = [ipc EXCEPT ![n] = "ret"]
                   /\ UNCHANGED initCalls
              ELSE IF IsInitNoder(n)
              THEN /\ ipc' = [ipc EXCEPT ![n] = "initcall"]
                   /\ initCalls' = [initCalls EXCEPT ![n] = @ + 1]
                   /\ UNCHANGED result
              ELSE /\ result' = [result EXCEPT ![n] = NilErr]
                   /\ ipc' = [ipc EXCEPT ![n] = "ret"]
                   /\ UNCHANGED initCalls
    /\ UNCHANGED <<restVars, fault, mainpc, idx, wg, ce, tmp, ires, initRet,
                   startVars>>

\* The node's own initializer returns, with nil or with an error, and that is
\* what InitNode returns.
InitNoderReturn(n) ==
    /\ ~fault
    /\ ipc[n] = "initcall"
    /\ \E r \in {NilErr, InitErr(n)} :
         /\ ires' = [ires EXCEPT ![n] = r]
         /\ result' = [result EXCEPT ![n] = r]
    /\ ipc' = [ipc EXCEPT ![n] = "ret"]
    /\ UNCHANGED <<restVars, fault, mainpc, idx, wg, ce, tmp, agg, initCalls,
                   initRet, startVars>>

\* ForEach's goroutine after f(n) returned: with nil it calls wg.Done(); with
\* an error it enters ce.Add, which reads ce.errors without any lock.
UnitAfterCall(n) ==
    /\ ~fault
    /\ n # Root
    /\ ipc[n] = "ret"
    /\ IF result[n] = NilErr
       THEN /\ wg' = [wg EXCEPT ![parent[n]] = @ - 1]
            /\ ipc' = [ipc EXCEPT ![n] = "done"]
            /\ UNCHANGED tmp
       ELSE /\ tmp' = [tmp EXCEPT ![n] = ce[parent[n]]]
            /\ ipc' = [ipc EXCEPT ![n] = "adding"]
            /\ UNCHANGED wg
    /\ UNCHANGED <<restVars, fault, mainpc, idx, ce, agg, result, initCalls,
                   ires, initRet, startVars>>

\* ce.Add stores append(what it read, err), and the goroutine ends with
\* wg.Done().
UnitAddStore(n) ==
    /\ ~fault
    /\ ipc[n] = "adding"
    /\ ce' = [ce EXCEPT ![parent[n]] = ConcurrentErrorsAdd(tmp[n], n)]
    /\ tmp' = [tmp EXCEPT ![n] = <<>>]
    /\ wg' = [wg EXCEPT ![parent[n]] = @ - 1]
    /\ ipc' = [ipc EXCEPT ![n] = "done"]
    /\ UNCHANGED <<restVars, fault, mainpc, idx, agg, result, initCalls,
                   ires, initRet, startVars>>

\* InitNode(root) returns to the caller.
InitNodeRootReturn ==
    /\ ~fault
    /\ mainpc = "init"
    /\ Root # NilNode
    /\ ipc[Root] = "ret"
    /\ initRet' = result[Root]
    /\ ipc' = [ipc EXCEPT ![Root] = "done"]
    /\ UNCHANGED <<restVars, fault, mainpc, idx, wg, ce, tmp, agg, result,
                   initCalls, ires, startVars>>

\* ------------------------------------------------------------------------
\* The caller: Start follows Init
\* ------------------------------------------------------------------------

\* InitNode(root) has returned, with nil or with an error, and the caller
\* calls StartNode(root): FindNodes builds its iterator over <<root>>.
CallStartNode ==
    /\ ~fault
    /\ mainpc = "init"
    /\ initRet # Pending
    /\ mainpc' = "start"
    /\ queue' = <<Root>>
    /\ swg' = 0
    /\ sce' = <<>>
    /\ UNCHANGED <<restVars, fault, initVars, spc, stmp, sres, dispatched,
                   startCalls, startArg, startRet>>

\* ------------------------------------------------------------------------
\* Start phase
\* ------------------------------------------------------------------------

\* One turn of StartNode's loop: FindNodes' iterator yields the next node in
\* breadth-first order and queues its children; a StartNoder gets wg.Add(1)
\* and a goroutine. With nothing left the loop ends and wg.Wait() is next.
StartNodeLoop ==
    /\ ~fault
    /\ mainpc = "start"
    /\ IF queue = <<>>
       THEN /\ mainpc' = "startwait"
            /\ UNCHANGED <<fault, queue, swg, spc, dispatched>>
       ELSE LET node == Head(queue)
            IN  IF ChildrenIsNil(node)
                THEN /\ fault' = TRUE
                     /\ UNCHANGED <<mainpc, queue, swg, spc, dispatched>>
                ELSE /\ queue' = FindNodesAdvance(queue)
                     /\ IF IsStartNoder(node)
                        THEN /\ swg' = StartWgAdd(swg)
                             /\ spc' = [spc EXCEPT ![node] = "spawned"]
                             /\ dispatched' =
                                    [dispatched EXCEPT ![node] = @ + 1]
                        ELSE UNCHANGED <<swg, spc, dispatched>>
                     /\ UNCHANGED <<fault, mainpc>>
    /\ UNCHANGED <<restVars, initVars, sce, stmp, sres, startCalls, startArg,
                   startRet>>

\* The goroutine runs: sn.StartNode(sk, root) is called and returns. With nil
\* the goroutine calls wg.Done(); with an error it enters ce.Add, which reads
\* ce.errors without any lock.
StarterReturn(n) ==
    /\ ~fault
    /\ spc[n] = "spawned"
    /\ startCalls' = [startCalls EXCEPT ![n] = @ + 1]
    /\ startArg' = [startArg EXCEPT ![n] = StarterArgs(n)]
    /\ \E r \in {NilErr, StartErr(n)} :
         /\ sres' = [sres EXCEPT ![n] = r]
         /\ IF r = NilErr
            THEN /\ swg' = swg - 1
                 /\ spc' = [spc EXCEPT ![n] = "done"]
                 /\ UNCHANGED stmp
            ELSE /\ stmp' = [stmp EXCEPT ![n] = sce]
                 /\ spc' = [spc EXCEPT ![n] = "adding"]
                 /\ UNCHANGED swg
    /\ UNCHANGED <<restVars, fault, mainpc, initVars, queue, sce, dispatched,
                   startRet>>

\* ce.Add stores append(what it read, err), and the goroutine ends with
\* wg.Done().
StarterAddStore(n) ==
    /\ ~fault
    /\ spc[n] = "adding"
    /\ sce' = ConcurrentErrorsAdd(stmp[n], n)
    /\ stmp' = [stmp EXCEPT ![n] = <<>>]
    /\ swg' = swg - 1
    /\ spc' = [spc EXCEPT ![n] = "done"]
    /\ UNCHANGED <<restVars, fault, mainpc, initVars, queue, sres, dispatched,
                   startCalls, startArg, startRet>>

\* wg.Wait() returns and StartNode returns nil or the collection.
StartNodeWait ==
    /\ ~fault
    /\ mainpc = "startwait"
    /\ WaitGroupZero(swg)
    /\ startRet' = StartNodeReturn(sce)
    /\ mainpc' = "done"
    /\ UNCHANGED <<restVars, fault, initVars, queue, swg, sce, spc, stmp,
                   sres, dispatched, startCalls, startArg>>

\* ------------------------------------------------------------------------
\* The steps of the lifecycle
\* ------------------------------------------------------------------------

LifeNext ==
    \/ InitNodeNil
    \/ \E n \in Nodes : InitNodeEnter(n)
    \/ \E n \in Nodes : ForEachDispatch(n)
    \/ \E n \in Nodes : ForEachWait(n)
    \/ \E n \in Nodes : InitNoderReturn(n)
    \/ \E n \in Nodes : UnitAfterCall(n)
    \/ \E n \in Nodes : UnitAddStore(n)
    \/ InitNodeRootReturn
    \/ CallStartNode
    \/ StartNodeLoop
    \/ \E n \in Nodes : StarterReturn(n)
    \/ \E n \in Nodes : StarterAddStore(n)
    \/ StartNodeWait

\* ------------------------------------------------------------------------
\* The class registry: texts, URIs, classes
\* ------------------------------------------------------------------------

\* The callers that use the registry at the same time.
NumCallers == 2

\* The calls the callers make, all together.
MaxCalls == 3

Callers == 1..NumCallers

\* A text is a sequence of characters. The letters that have two cases, as
\* pairs <<upper, lower>>.
CasePairs ==
    {<<"A", "a">>, <<"N", "n">>, <<"P", "p">>, <<"X", "x">>, <<"M", "m">>,
     <<"L", "l">>, <<"S", "s">>}

\* strings.ToLower, character by character.
LowerChar(c) ==
    IF \E pr \in CasePairs : pr[1] = c
    THEN (CHOOSE pr \in CasePairs : pr[1] = c)[2]
    ELSE c

ToLower(s) == [i \in 1..Len(s) |-> LowerChar(s[i])]

\* Two texts are equal ignoring letter case.
EqualFold(s, t) ==
    /\ Len(s) = Len(t)
    /\ \A i \in 1..Len(s) :
         \/ s[i] = t[i]
         \/ <<s[i], t[i]>> \in CasePairs
         \/ <<t[i], s[i]>> \in CasePairs

\* url.URL{Scheme, Opaque, Fragment}.
URL(scheme, opaque, fragment) ==
    [scheme |-> scheme, opaque |-> opaque, fragment |-> fragment]

\* (url.URL).String() of such a URL: scheme ":" opaque "#" fragment, the colon
\* only with a scheme and the "#" only with a fragment.
URLString(u) ==
    (IF u.scheme = <<>> THEN <<>> ELSE u.scheme \o <<":">>)
        \o u.opaque
        \o (IF u.fragment = <<>> THEN <<>> ELSE <<"#">> \o u.fragment)

\* The key init() puts the root class under: "import:nodes#node".
NodeClassKey ==
    <<"i", "m", "p", "o", "r", "t", ":", "n", "o", "d", "e", "s", "#",
      "n", "o", "d", "e">>

\* The reserved fragment "Node".
NodeFragment == <<"N", "o", "d", "e">>

\* The URIs the callers use: the root class's own URI, a class A under x:p in
\* both letter cases (and with the path in upper case), and the structural
\* base of x:p.
URIs ==
    { URL(<<"i", "m", "p", "o", "r", "t">>, <<"n", "o", "d", "e", "s">>,
          NodeFragment),
      URL(<<"x">>, <<"p">>, <<"A">>),
      URL(<<"x">>, <<"p">>, <<"a">>),
      URL(<<"x">>, <<"P">>, <<"A">>),
      URL(<<"x">>, <<"p">>, NodeFragment) }

\* References to classes: NodeClass is &nodeClassValue; a caller's own class
\* is a value it registers; a class CreateDynamicClass allocated is named by
\* its place in heap.
ClassRef(k, i) == [k |-> k, i |-> i]

NodeClass == ClassRef("NodeClass", 0)

\* stringClassType{}, the String class.
StringClass == ClassRef("StringClass", 0)

UserClasses == {ClassRef("UserClass", 0)}

DynamicRef(i) == ClassRef("dynamic", i)

\* The nil Class.
NilClass == ClassRef("nil", 0)

\* The fields of the nodeclass behind a class reference.
ClassObject(c) ==
    IF c = NodeClass
    THEN [name |-> NodeFragment, base |-> NilClass,
          allocator |-> "allocBasicNode", initializer |-> "initBasicNode"]
    ELSE IF c = StringClass
    THEN [name |-> <<"S", "t", "r", "i", "n", "g">>, base |-> NodeClass,
          allocator |-> "allocString", initializer |-> "initString"]
    ELSE IF c.k = "UserClass"
    THEN [name |-> <<"U">>, base |-> NodeClass,
          allocator |-> IF c.i = 1 THEN "allocFails" ELSE "allocUser",
          initializer |-> IF c.i = 2 THEN "initFails" ELSE "initUser"]
    ELSE heap[c.i]

\* The error of GetClassByURI.
ClassNotFound(uri) == [kind |-> "ClassNotFound", uri |-> uri]

\* The errors.Errorf of RegisterClassString and of CreateDynamicClass for a
\* class that is registered already.
DuplicateClass(cls) == [kind |-> "DuplicateClass", cls |-> cls]

\* ------------------------------------------------------------------------
\* The class registry: the functions
\* ------------------------------------------------------------------------

\* A GetClassByURI that looks the string up in the case it is given in.
GetClassByURIExactCase(reg, uri) ==
    LET key == URLString(uri)
    IN  IF key \in DOMAIN reg
        THEN [cls |-> reg[key], err |-> NilErr]
        ELSE [cls |-> NilClass, err |-> ClassNotFound(uri)]

\* GetClassByURI under the read lock: the class under the lower-cased string
\* of the URI, or ClassNotFound.
GetClassByURI(reg, uri) ==
    LET key == ToLower(URLString(uri))
    IN  IF key \in DOMAIN reg
        THEN [cls |-> reg[key], err |-> NilErr]
        ELSE [cls |-> NilClass, err |-> ClassNotFound(uri)]

\* A RegisterClassString that stores over an existing entry.
RegisterClassStringOverwrite(reg, uri, cls) ==
    LET key == ToLower(uri)
    IN  [registry |-> [k \in DOMAIN reg \cup {key} |->
                          IF k = key THEN cls ELSE reg[k]],
         inserted |-> TRUE,
         err |-> NilErr]

\* A RegisterClassString that makes a fresh map for the entry it inserts.
RegisterClassStringAlone(reg, uri, cls) ==
    LET key == ToLower(uri)
    IN  IF key \in DOMAIN reg
        THEN [registry |-> reg, inserted |-> FALSE,
              err |-> DuplicateClass(reg[key])]
        ELSE [registry |-> [k \in {key} |-> cls],
              inserted |-> TRUE,
              err |-> NilErr]

\* RegisterClassString under the write lock: an error when the lower-cased
\* string is a key already, else the insertion.
RegisterClassString(reg, uri, cls) ==
    LET key == ToLower(uri)
    IN  IF key \in DOMAIN reg
        THEN [registry |-> reg, inserted |-> FALSE,
              err |-> DuplicateClass(reg[key])]
        ELSE [registry |-> [k \in DOMAIN reg \cup {key} |->
                               IF k = key THEN cls ELSE reg[k]],
              inserted |-> TRUE,
              err |-> NilErr]

\* RegisterClass: RegisterClassString of uri.String().
RegisterClass(reg, uri, cls) == RegisterClassString(reg, URLString(uri), cls)

\* GetBaseClassFromURI: the class under the URI with its fragment replaced by
\* "Node", or NodeClass when there is none.
GetBaseClassFromURI(reg, uri) ==
    LET baseuri == [uri EXCEPT !.fragment = NodeFragment]
        got == GetClassByURI(reg, baseuri)
    IN  IF got.err # NilErr THEN NodeClass ELSE got.cls

\* The nodeclass CreateDynamicClass builds on a base.
DynamicClass(uri, base) ==
    [name |-> uri.fragment, base |-> base,
     allocator |-> ClassObject(base).allocator,
     initializer |-> ClassObject(base).initializer]

\* An existence test of CreateDynamicClass that never finds a class.
AlreadyRegisteredNever(got) == FALSE

\* The existence test of CreateDynamicClass: cls != nil.
AlreadyRegistered(got) == got.cls # NilClass

\* What a call of caller p returned: a class and an error.
Returned(p, op, uri, cls, rcls, rerr) ==
    [p |-> p, op |-> op, uri |-> uri, cls |-> cls, rcls |-> rcls,
     rerr |-> rerr]

NoCall == [op |-> "none"]

\* ------------------------------------------------------------------------
\* The class registry: initial state and steps
\* ------------------------------------------------------------------------

\* The registry as init() leaves it, and callers that have called nothing.
RegInit ==
    /\ classRegistry = [k \in {NodeClassKey} |-> NodeClass]
    /\ heap = <<>>
    /\ regLog = {[uri |-> NodeClassKey, cls |-> NodeClass]}
    /\ rpc = [p \in Callers |-> "idle"]
    /\ arg = [p \in Callers |-> NoCall]
    /\ newcls = [p \in Callers |-> NilClass]
    /\ last = NoCall
    /\ calls = 0

\* Caller p calls GetClassByURI(uri).
Resolve(p, uri) ==
    /\ rpc[p] = "idle"
    /\ calls < MaxCalls
    /\ LET got == GetClassByURI(classRegistry, uri)
       IN  last' = Returned(p, "resolve", uri, NilClass, got.cls, got.err)
    /\ calls' = calls + 1
    /\ UNCHANGED <<notRegVars, classRegistry, heap, regLog, rpc, arg, newcls>>

\* Caller p calls RegisterClass(uri, cls) with a class of its own.
Register(p, uri, cls) ==
    /\ rpc[p] = "idle"
    /\ calls < MaxCalls
    /\ LET r == RegisterClass(classRegistry, uri, cls)
       IN  /\ classRegistry' = r.registry
           /\ regLog' = IF r.inserted
                        THEN regLog \cup {[uri |-> URLString(uri),
                                           cls |-> cls]}
                        ELSE regLog
           /\ last' = Returned(p, "register", uri, cls, NilClass, r.err)
    /\ calls' = calls + 1
    /\ UNCHANGED <<notRegVars, heap, rpc, arg, newcls>>

\* Caller p calls CreateDynamicClass(uri): the existence check, a
\* GetClassByURI of its own. A class found ends the call with no class and
\* an error.
CreateDynamicCheck(p, uri) ==
    /\ rpc[p] = "idle"
    /\ calls < MaxCalls
    /\ calls' = calls + 1
    /\ LET got == GetClassByURI(classRegistry, uri)
       IN  IF AlreadyRegistered(got)
           THEN /\ last' = Returned(p, "createDynamic", uri, NilClass,
                                    NilClass, DuplicateClass(got.cls))
                /\ UNCHANGED <<rpc, arg>>
           ELSE /\ rpc' = [rpc EXCEPT ![p] = "base"]
                /\ arg' = [arg EXCEPT ![p] = uri]
                /\ UNCHANGED last
    /\ UNCHANGED <<notRegVars, classRegistry, heap, regLog, newcls>>

\* CreateDynamicClass goes on: GetBaseClassFromURI, another read of the
\* registry, and the allocation of the new nodeclass.
CreateDynamicBase(p) ==
    /\ rpc[p] = "base"
    /\ LET base == GetBaseClassFromURI(classRegistry, arg[p])
       IN  /\ heap' = Append(heap, DynamicClass(arg[p], base))
           /\ newcls' = [newcls EXCEPT ![p] = DynamicRef(Len(heap) + 1)]
    /\ rpc' = [rpc EXCEPT ![p] = "register"]
    /\ UNCHANGED <<notRegVars, classRegistry, regLog, arg, last, calls>>

\* CreateDynamicClass ends: RegisterClass(uri, cls), and the class is
\* returned, with the error of RegisterClass when there is one.
CreateDynamicRegister(p) ==
    /\ rpc[p] = "register"
    /\ LET r == RegisterClass(classRegistry, arg[p], newcls[p])
       IN  /\ classRegistry' = r.registry
           /\ regLog' = IF r.inserted
                        THEN regLog \cup {[uri |-> URLString(arg[p]),
                                           cls |-> newcls[p]]}
                        ELSE regLog
           /\ last' = Returned(p, "createDynamic", arg[p], NilClass,
                               newcls[p], r.err)
    /\ rpc' = [rpc EXCEPT ![p] = "idle"]
    /\ arg' = [arg EXCEPT ![p] = NoCall]
    /\ newcls' = [newcls EXCEPT ![p] = NilClass]
    /\ UNCHANGED <<notRegVars, heap, calls>>

RegNext ==
    \/ \E p \in Callers, uri \in URIs : Resolve(p, uri)
    \/ \E p \in Callers, uri \in URIs, cls \in UserClasses :
           Register(p, uri, cls)
    \/ \E p \in Callers, uri \in URIs : CreateDynamicCheck(p, uri)
    \/ \E p \in Callers : CreateDynamicBase(p)
    \/ \E p \in Callers : CreateDynamicRegister(p)

\* ------------------------------------------------------------------------
\* The node collection: names, nodes, errors
\* ------------------------------------------------------------------------

\* The Node instances that exist.
MaxMapNodes == 4

\* The names the instances carry, in turn: the first two instances have names
\* that differ in letter case only.
MapNames == << <<"A">>, <<"a">>, <<"P">>, <<"N">>, <<"p">> >>

\* A MakeString that keeps the letter case in the lower field.
MakeStringKeepCase(value) == [value |-> value, lower |-> value]

\* MakeString: the value and its lower-cased form.
MakeString(value) == [value |-> value, lower |-> ToLower(value)]

\* The i-th Node instance; Name() is all the collection asks of it.
MapNode(i) ==
    [id |-> i, name |-> MakeString(MapNames[((i - 1) % Len(MapNames)) + 1])]

MapNodes == {MapNode(i) : i \in 1..MaxMapNodes}

\* The nil Node as a collection returns it; the zero namenode has it.
NilMapNode == [id |-> 0, name |-> MakeString(<<>>)]

\* The names a caller asks for: every name of an instance in both cases.
AskNames ==
    {MakeString(v) : v \in {<<"A">>, <<"a">>, <<"P">>, <<"p">>,
                            <<"N">>, <<"n">>}}

\* The indexes a caller asks for: from one below the least valid one of the
\* longest collection to its length.
AskIndexes == (0 - (MaxMapNodes + 1))..MaxMapNodes

NodeNotFound(name) == [kind |-> "NodeNotFound", name |-> name]

IndexError(i, length) == [kind |-> "IndexError", index |-> i, length |-> length]

\* The errors.Errorf of AddNode.
DuplicateName(name) == [kind |-> "DuplicateName", name |-> name]

\* The errors.Errorf of Remove.
DifferentNode(name) == [kind |-> "DifferentNode", name |-> name]

\* The zero namenode.
ZeroNameNode == [name |-> <<>>, node |-> NilMapNode]

\* A nodemap value, and what a call on one gives: the nodemap after it, the
\* Node and the error it returns, and whether it panicked instead.
NodeMapOf(ix, ps) == [index |-> ix, pairs |-> ps]

MapResult(m, node, err, panicked) ==
    [m |-> m, node |-> node, err |-> err, fault |-> panicked]

\* ------------------------------------------------------------------------
\* The node collection: the functions
\* ------------------------------------------------------------------------

MapLen(m) == Len(m.pairs)

\* A GetTrueIndex that leaves a negative index as it is.
GetTrueIndexNoTranslation(length, i) ==
    [out |-> i, ok |-> (i >= 0 \/ i < length)]

\* GetTrueIndex: a negative index counts from the end; ok is the disjunction
\* the code returns.
GetTrueIndex(length, i) ==
    LET out == IF i < 0 THEN length + i ELSE i
    IN  [out |-> out, ok |-> (out >= 0 \/ out < length)]

\* m.pairs[i] is in range.
InRange(m, i) == i >= 0 /\ i < MapLen(m)

\* getnn: where the key's namenode is, ok or not; &m.pairs[index] panics out
\* of range.
getnn(m, key) ==
    IF key \in DOMAIN m.index
    THEN [ok |-> TRUE, at |-> m.index[key],
          fault |-> ~InRange(m, m.index[key])]
    ELSE [ok |-> FALSE, at |-> 0, fault |-> FALSE]

\* A newnn that indexes the key one place too far.
newnnOffByOne(m, key) ==
    NodeMapOf([k \in DOMAIN m.index \cup {key} |->
                  IF k = key THEN MapLen(m) + 1 ELSE m.index[k]],
              Append(m.pairs, ZeroNameNode))

\* newnn: the key is indexed at the length and a zero namenode is appended.
newnn(m, key) ==
    NodeMapOf([k \in DOMAIN m.index \cup {key} |->
                  IF k = key THEN MapLen(m) ELSE m.index[k]],
              Append(m.pairs, ZeroNameNode))

\* An AddNode that takes overwrite for true.
AddNodeAlwaysOverwrite(m, node, overwrite) ==
    LET key == node.name.lower
        got == getnn(m, key)
        m1 == IF got.ok THEN m ELSE newnn(m, key)
        at == IF got.ok THEN got.at ELSE MapLen(m)
    IN  MapResult([m1 EXCEPT !.pairs[at + 1] =
                                 [name |-> node.name.lower, node |-> node]],
                  NilMapNode, NilErr, FALSE)

\* AddNode: an error when the key is there and overwrite is false; else the
\* key's namenode, a new one when there was none, takes the name and the node.
AddNode(m, node, overwrite) ==
    LET key == node.name.lower
        got == getnn(m, key)
    IN  IF got.fault
        THEN MapResult(m, NilMapNode, NilErr, TRUE)
        ELSE IF got.ok /\ ~overwrite
        THEN MapResult(m, NilMapNode, DuplicateName(node.name), FALSE)
        ELSE LET m1 == IF got.ok THEN m ELSE newnn(m, key)
                 at == IF got.ok THEN got.at ELSE MapLen(m)
             IN  MapResult([m1 EXCEPT !.pairs[at + 1] =
                                [name |-> node.name.lower, node |-> node]],
                           NilMapNode, NilErr, FALSE)

\* Contains: the key's namenode holds this very node.
Contains(m, node) ==
    LET got == getnn(m, node.name.lower)
    IN  got.ok /\ ~got.fault /\ m.pairs[got.at + 1].node = node

\* GetName: the node of the key's namenode, or NodeNotFound.
GetName(m, name) ==
    LET got == getnn(m, name.lower)
    IN  IF got.fault
        THEN MapResult(m, NilMapNode, NilErr, TRUE)
        ELSE IF ~got.ok
        THEN MapResult(m, NilMapNode, NodeNotFound(name), FALSE)
        ELSE MapResult(m, m.pairs[got.at + 1].node, NilErr, FALSE)

\* GetIndex: IndexError when GetTrueIndex says not ok, else m.pairs[index],
\* which panics out of range.
GetIndex(m, i) ==
    LET t == GetTrueIndex(MapLen(m), i)
    IN  IF ~t.ok
        THEN MapResult(m, NilMapNode, IndexError(t.out, MapLen(m)), FALSE)
        ELSE IF ~InRange(m, t.out)
        THEN MapResult(m, NilMapNode, NilErr, TRUE)
        ELSE MapResult(m, m.pairs[t.out + 1].node, NilErr, FALSE)

\* The loop of RemoveIndex left out.
DecrementFromNothing(ix, ps, j) == ix

\* The loop of RemoveIndex: m.index[pair.name]-- for the namenodes of ps from
\* position j (from 1) on; a name that is no key becomes one, at -1.
RECURSIVE DecrementFrom(_, _, _)
DecrementFrom(ix, ps, j) ==
    IF j > Len(ps)
    THEN ix
    ELSE LET name == ps[j].name
             old == IF name \in DOMAIN ix THEN ix[name] ELSE 0
         IN  DecrementFrom([k \in DOMAIN ix \cup {name} |->
                               IF k = name THEN old - 1 ELSE ix[k]],
                           ps, j + 1)

\* A delete that keeps the key.
DeleteKeyKept(ix, key) == ix

\* delete(m.index, key).
DeleteKey(ix, key) == [k \in DOMAIN ix \ {key} |-> ix[k]]

\* RemoveIndex: IndexError when GetTrueIndex says not ok; else the namenode
\* at the index (a panic out of range) is cut out of pairs, its name is
\* deleted from the index and the positions behind it are decremented.
RemoveIndex(m, i) ==
    LET t == GetTrueIndex(MapLen(m), i)
    IN  IF ~t.ok
        THEN MapResult(m, NilMapNode, IndexError(t.out, MapLen(m)), FALSE)
        ELSE IF ~InRange(m, t.out)
        THEN MapResult(m, NilMapNode, NilErr, TRUE)
        ELSE LET pair == m.pairs[t.out + 1]
                 ps == SubSeq(m.pairs, 1, t.out)
                           \o SubSeq(m.pairs, t.out + 2, MapLen(m))
                 ix == DecrementFrom(DeleteKey(m.index, pair.name), ps,
                                     t.out + 1)
             IN  MapResult(NodeMapOf(ix, ps), NilMapNode, NilErr, FALSE)

\* RemoveName: NodeNotFound when the lower-cased name is no key, else
\* RemoveIndex of its position.
RemoveName(m, name) ==
    IF name.lower \notin DOMAIN m.index
    THEN MapResult(m, NilMapNode, NodeNotFound(name), FALSE)
    ELSE RemoveIndex(m, m.index[name.lower])

\* A Remove that does not compare the stored node with its argument.
RemoveAnyInstance(m, node) ==
    LET got == getnn(m, node.name.lower)
    IN  IF got.fault
        THEN MapResult(m, NilMapNode, NilErr, TRUE)
        ELSE IF ~got.ok
        THEN MapResult(m, NilMapNode, NodeNotFound(node.name), FALSE)
        ELSE RemoveName(m, node.name)

\* Remove: NodeNotFound when the node's name is no key, an error when the
\* key's namenode holds another node, else RemoveName of the node's name.
Remove(m, node) ==
    LET got == getnn(m, node.name.lower)
    IN  IF got.fault
        THEN MapResult(m, NilMapNode, NilErr, TRUE)
        ELSE IF ~got.ok
        THEN MapResult(m, NilMapNode, NodeNotFound(node.name), FALSE)
        ELSE IF m.pairs[got.at + 1].node # node
        THEN MapResult(m, NilMapNode, DifferentNode(node.name), FALSE)
        ELSE RemoveName(m, node.name)

\* ------------------------------------------------------------------------
\* The node collection: initial state and steps
\* ------------------------------------------------------------------------

\* The value of the collection now.
TheMap == NodeMapOf(index, pairs)

\* What a call on the collection was and what it returned.
MapReturned(op, node, overwrite, name, i, r) ==
    [op |-> op, node |-> node, overwrite |-> overwrite, name |-> name,
     i |-> i, rnode |-> r.node, rerr |-> r.err]

NoMapCall ==
    [op |-> "none", node |-> NilMapNode, overwrite |-> FALSE,
     name |-> MakeString(<<>>), i |-> 0, rnode |-> NilMapNode,
     rerr |-> NilErr]

\* A call ends: a panic ends everything, else the collection is what the
\* call made of it and the call's result is noted.
MapCallEnds(r, ret) ==
    IF r.fault
    THEN /\ mfault' = TRUE
         /\ UNCHANGED <<index, pairs, mlast>>
    ELSE /\ index' = r.m.index
         /\ pairs' = r.m.pairs
         /\ mlast' = ret
         /\ UNCHANGED mfault

\* NewNodeMap: an empty collection.
MapInit ==
    /\ index = <<>>
    /\ pairs = <<>>
    /\ mfault = FALSE
    /\ mlast = NoMapCall

MapAddNode(node, overwrite) ==
    /\ ~mfault
    /\ LET r == AddNode(TheMap, node, overwrite)
       IN  MapCallEnds(r, MapReturned("AddNode", node, overwrite, node.name,
                                      0, r))
    /\ UNCHANGED notMapVars

MapGetName(name) ==
    /\ ~mfault
    /\ LET r == GetName(TheMap, name)
       IN  MapCallEnds(r, MapReturned("GetName", NilMapNode, FALSE, name,
                                      0, r))
    /\ UNCHANGED notMapVars

MapGetIndex(i) ==
    /\ ~mfault
    /\ LET r == GetIndex(TheMap, i)
       IN  MapCallEnds(r, MapReturned("GetIndex", NilMapNode, FALSE,
                                      MakeString(<<>>), i, r))
    /\ UNCHANGED notMapVars

MapRemoveIndex(i) ==
    /\ ~mfault
    /\ LET r == RemoveIndex(TheMap, i)
       IN  MapCallEnds(r, MapReturned("RemoveIndex", NilMapNode, FALSE,
                                      MakeString(<<>>), i, r))
    /\ UNCHANGED notMapVars

MapRemoveName(name) ==
    /\ ~mfault
    /\ LET r == RemoveName(TheMap, name)
       IN  MapCallEnds(r, MapReturned("RemoveName", NilMapNode, FALSE, name,
                                      0, r))
    /\ UNCHANGED notMapVars

MapRemove(node) ==
    /\ ~mfault
    /\ LET r == Remove(TheMap, node)
       IN  MapCallEnds(r, MapReturned("Remove", node, FALSE, node.name,
                                      0, r))
    /\ UNCHANGED notMapVars

MapNext ==
    \/ \E node \in MapNodes, overwrite \in BOOLEAN :
           MapAddNode(node, overwrite)
    \/ \E name \in AskNames : MapGetName(name)
    \/ \E i \in AskIndexes : MapGetIndex(i)
    \/ \E i \in AskIndexes : MapRemoveIndex(i)
    \/ \E name \in AskNames : MapRemoveName(name)
    \/ \E node \in MapNodes : MapRemove(node)

\* ------------------------------------------------------------------------
\* The attribute map: the type's attributes, the bound node, the functions
\* ------------------------------------------------------------------------

\* The fields of the bound node the attributes of its type read and write.
Slots == {"p", "n"}

\* A TypeAttr: its Name, and its Getter and Setter, which are one of three
\* sorts: "field" (the Getter returns the node's field, the Setter assigns
\* it), "computed" (the Getter returns the field, the Setter returns an
\* error) and "broken" (both return an error).
TypeAttr(name, slot, sort) ==
    [Name |-> MakeString(name), slot |-> slot, sort |-> sort]

ZeroTypeAttr == [Name |-> MakeString(<<>>), slot |-> "p", sort |-> "broken"]

GetterFailed(name) == [kind |-> "GetterFailed", name |-> name]

SetterFailed(name) == [kind |-> "SetterFailed", name |-> name]

AttrDefined(name) == [kind |-> "AttrDefined", name |-> name]

\* The errors.Errorf of RemoveName, RemoveIndex and Remove.
TypeAttrPermanent == [kind |-> "TypeAttrPermanent"]

\* a.Getter(self): the Node and the error.
Getter(a, self) ==
    IF a.sort = "broken"
    THEN [node |-> NilMapNode, err |-> GetterFailed(a.Name)]
    ELSE [node |-> self[a.slot], err |-> NilErr]

\* a.Setter(self, value): the node after it and the error.
Setter(a, self, value) ==
    IF a.sort = "field"
    THEN [self |-> [self EXCEPT ![a.slot] = value], err |-> NilErr]
    ELSE [self |-> self, err |-> SetterFailed(a.Name)]

NewNodeTypeAttrMap == [index |-> <<>>, pairs |-> <<>>]

\* NodeTypeAttrMap.Len.
TypeLen(tm) == Len(tm.pairs)

\* A TypeAttrByKey that finds nothing.
TypeAttrByKeyNothing(tm, key) == [ok |-> FALSE, at |-> 0]

\* TypeAttrByKey: where the key's TypeAttr is, ok or not.
TypeAttrByKey(tm, key) ==
    IF key \in DOMAIN tm.index
    THEN [ok |-> TRUE, at |-> tm.index[key]]
    ELSE [ok |-> FALSE, at |-> 0]

\* TypeAttrByName: by the lower-cased name.
TypeAttrByName(tm, name) == TypeAttrByKey(tm, name.lower)

\* AddTypeAttr: an error when the name is defined and overwrite is false;
\* else the name's TypeAttr, a new one at the end when there was none,
\* becomes a.
AddTypeAttr(tm, a, overwrite) ==
    LET got == TypeAttrByName(tm, a.Name)
    IN  IF got.ok /\ ~overwrite
        THEN [tm |-> tm, err |-> AttrDefined(a.Name)]
        ELSE LET at == IF got.ok THEN got.at ELSE TypeLen(tm)
                 ix == [k \in DOMAIN tm.index \cup {a.Name.lower} |->
                           IF k \in DOMAIN tm.index THEN tm.index[k] ELSE at]
                 ps == IF got.ok THEN tm.pairs
                                 ELSE Append(tm.pairs, ZeroTypeAttr)
             IN  [tm |-> [index |-> ix, pairs |-> [ps EXCEPT ![at + 1] = a]],
                  err |-> NilErr]

\* MustAddTypeAttr for each definition of the sequence in turn, from the
\* empty map on.
RECURSIVE MustAddTypeAttrs(_, _)
MustAddTypeAttrs(tm, adds) ==
    IF adds = <<>>
    THEN tm
    ELSE MustAddTypeAttrs(AddTypeAttr(tm, Head(adds).a,
                                      Head(adds).overwrite).tm,
                          Tail(adds))

\* The attribute definitions of the node types there are: none; one; two,
\* the first under a name no node has; two with a Getter that fails first;
\* and two of which the first was overwritten under a name in another
\* letter case.
TypeAttrDefs ==
    { <<>>,
      << [a |-> TypeAttr(<<"a">>, "p", "field"), overwrite |-> FALSE] >>,
      << [a |-> TypeAttr(<<"V">>, "p", "field"), overwrite |-> FALSE],
         [a |-> TypeAttr(<<"N">>, "n", "computed"), overwrite |-> FALSE] >>,
      << [a |-> TypeAttr(<<"N">>, "n", "broken"), overwrite |-> FALSE],
         [a |-> TypeAttr(<<"P">>, "p", "field"), overwrite |-> FALSE] >>,
      << [a |-> TypeAttr(<<"N">>, "n", "field"), overwrite |-> FALSE],
         [a |-> TypeAttr(<<"A">>, "p", "computed"), overwrite |-> FALSE],
         [a |-> TypeAttr(<<"n">>, "n", "computed"), overwrite |-> TRUE] >> }

NodeTypeAttrMaps == {MustAddTypeAttrs(NewNodeTypeAttrMap, d) : d \in TypeAttrDefs}

\* The most TypeAttrs a type has.
MaxTypeAttrs == 2

\* The indexes a caller asks for: from one below the least valid one of the
\* longest attribute map to its length.
AttrIndexes ==
    (0 - (MaxTypeAttrs + MaxMapNodes + 1))..(MaxTypeAttrs + MaxMapNodes)

\* The nodes a field of the bound node holds at first.
FieldNodes == {NilMapNode, MapNode(3), MapNode(4)}

\* Bind: the node, its type's attributes and an empty dynamic collection.
Bind(tm, node) ==
    [Node |-> node, NodeTypeAttrMap |-> tm,
     dynamic |-> NodeMapOf(<<>>, <<>>)]

\* What a call on an attribute map gives: the map after it, the Node and
\* the error it returns, whether it panicked instead, and the calls it made
\* of Getters, Setters and the dynamic collection, in order.
AttrResult(am, node, err, panicked, made) ==
    [am |-> am, node |-> node, err |-> err, fault |-> panicked,
     made |-> made]

GetterCall(at) == [fn |-> "Getter", at |-> at]

SetterCall(at) == [fn |-> "Setter", at |-> at]

DynamicCall(method) == [fn |-> method, at |-> 0 - 1]

\* The result of a call handed on to the dynamic collection.
Delegated(am, r, method) ==
    AttrResult([am EXCEPT !.dynamic = r.m], r.node, r.err, r.fault,
               <<DynamicCall(method)>>)

\* The result of pairs[at].Getter(m.Node).
Got(am, at) ==
    LET g == Getter(am.NodeTypeAttrMap.pairs[at + 1], am.Node)
    IN  AttrResult(am, g.node, g.err, FALSE, <<GetterCall(at)>>)

\* NodeAttrMap.Len.
NodeAttrMapLen(am) == TypeLen(am.NodeTypeAttrMap) + MapLen(am.dynamic)

\* An AddNode that hands every node to the dynamic collection.
NodeAttrMapAddNodeDynamic(am, node, overwrite) ==
    Delegated(am, AddNode(am.dynamic, node, overwrite), "AddNode")

\* NodeAttrMap.AddNode: the Setter of the TypeAttr of the node's name, or
\* AddNode of the dynamic collection.
NodeAttrMapAddNode(am, node, overwrite) ==
    LET got == TypeAttrByName(am.NodeTypeAttrMap, node.name)
    IN  IF got.ok
        THEN LET s == Setter(am.NodeTypeAttrMap.pairs[got.at + 1], am.Node,
                             node)
             IN  AttrResult([am EXCEPT !.Node = s.self], NilMapNode, s.err,
                            FALSE, <<SetterCall(got.at)>>)
        ELSE Delegated(am, AddNode(am.dynamic, node, overwrite), "AddNode")

\* NodeAttrMap.GetName: the Getter of the TypeAttr of the name, or GetName
\* of the dynamic collection.
NodeAttrMapGetName(am, name) ==
    LET got == TypeAttrByName(am.NodeTypeAttrMap, name)
    IN  IF got.ok
        THEN Got(am, got.at)
        ELSE Delegated(am, GetName(am.dynamic, name), "GetName")

\* A GetIndex that hands the index to the dynamic collection as it is.
NodeAttrMapGetIndexNoOffset(am, i) ==
    LET length == NodeAttrMapLen(am)
        t == GetTrueIndex(length, i)
        typelength == TypeLen(am.NodeTypeAttrMap)
    IN  IF t.out < typelength /\ t.out >= 0
        THEN Got(am, t.out)
        ELSE Delegated(am, GetIndex(am.dynamic, t.out), "GetIndex")

\* NodeAttrMap.GetIndex: IndexError when GetTrueIndex says not ok; else the
\* Getter of pairs[index] below the type's length (a panic below 0), and
\* GetIndex of the dynamic collection at index - typelength from there on.
NodeAttrMapGetIndex(am, i) ==
    LET length == NodeAttrMapLen(am)
        t == GetTrueIndex(length, i)
        typelength == TypeLen(am.NodeTypeAttrMap)
    IN  IF ~t.ok
        THEN AttrResult(am, NilMapNode, IndexError(t.out, length), FALSE,
                        <<>>)
        ELSE IF t.out < typelength
        THEN IF t.out < 0
             THEN AttrResult(am, NilMapNode, NilErr, TRUE, <<>>)
             ELSE Got(am, t.out)
        ELSE Delegated(am, GetIndex(am.dynamic, t.out - typelength),
                       "GetIndex")

\* The Getters' results for the TypeAttrs from position j (from 1) on, until
\* one fails.
RECURSIVE GetterNodes(_, _)
GetterNodes(am, j) ==
    IF j > TypeLen(am.NodeTypeAttrMap)
    THEN [nodes |-> <<>>, fault |-> FALSE]
    ELSE LET g == Getter(am.NodeTypeAttrMap.pairs[j], am.Node)
             rest == GetterNodes(am, j + 1)
         IN  IF g.err # NilErr
             THEN [nodes |-> <<>>, fault |-> TRUE]
             ELSE [nodes |-> <<g.node>> \o rest.nodes, fault |-> rest.fault]

\* NodeAttrMap.Nodes: the Getters' results in the order of the TypeAttrs (a
\* panic when one fails), then the nodes of the dynamic collection.
NodeAttrMapNodes(am) ==
    LET g == GetterNodes(am, 1)
    IN  IF g.fault
        THEN [nodes |-> <<>>, fault |-> TRUE]
        ELSE [nodes |-> g.nodes \o
                        [q \in 1..MapLen(am.dynamic) |->
                            am.dynamic.pairs[q].node],
              fault |-> FALSE]

\* NodeAttrMap.RemoveName: an error for the name of a TypeAttr, else
\* RemoveName of the dynamic collection.
NodeAttrMapRemoveName(am, name) ==
    IF TypeAttrByName(am.NodeTypeAttrMap, name).ok
    THEN AttrResult(am, NilMapNode, TypeAttrPermanent, FALSE, <<>>)
    ELSE Delegated(am, RemoveName(am.dynamic, name), "RemoveName")

\* A RemoveIndex that hands the index to the dynamic collection as it is.
NodeAttrMapRemoveIndexNoOffset(am, i) ==
    Delegated(am,
              RemoveIndex(am.dynamic,
                          GetTrueIndex(NodeAttrMapLen(am), i).out),
              "RemoveIndex")

\* NodeAttrMap.RemoveIndex: an error for an index below the type's length,
\* else RemoveIndex of the dynamic collection at index - tamlen; IndexError
\* when GetTrueIndex says not ok.
NodeAttrMapRemoveIndex(am, i) ==
    LET mlen == NodeAttrMapLen(am)
        t == GetTrueIndex(mlen, i)
        tamlen == TypeLen(am.NodeTypeAttrMap)
    IN  IF t.ok
        THEN IF t.out < tamlen
             THEN AttrResult(am, NilMapNode, TypeAttrPermanent, FALSE, <<>>)
             ELSE Delegated(am, RemoveIndex(am.dynamic, t.out - tamlen),
                            "RemoveIndex")
        ELSE AttrResult(am, NilMapNode, IndexError(t.out, mlen), FALSE, <<>>)

\* NodeAttrMap.Remove: an error for a node with the name of a TypeAttr, else
\* Remove of the dynamic collection.
NodeAttrMapRemove(am, node) ==
    IF TypeAttrByName(am.NodeTypeAttrMap, node.name).ok
    THEN AttrResult(am, NilMapNode, TypeAttrPermanent, FALSE, <<>>)
    ELSE Delegated(am, Remove(am.dynamic, node), "Remove")

\* ------------------------------------------------------------------------
\* The attribute map: initial state and steps
\* ------------------------------------------------------------------------

\* What a call on the attribute map was and what it returned.
AttrReturned(op, node, overwrite, name, i, r) ==
    [op |-> op, node |-> node, overwrite |-> overwrite, name |-> name,
     i |-> i, rnode |-> r.node, rerr |-> r.err, made |-> r.made]

NoAttrCall ==
    [op |-> "none", node |-> NilMapNode, overwrite |-> FALSE,
     name |-> MakeString(<<>>), i |-> 0, rnode |-> NilMapNode,
     rerr |-> NilErr, made |-> <<>>]

\* A call ends: a panic ends everything, else the attribute map is what the
\* call made of it and the call's result is noted.
AttrCallEnds(r, ret) ==
    IF r.fault
    THEN /\ afault' = TRUE
         /\ UNCHANGED <<attrs, alast>>
    ELSE /\ attrs' = r.am
         /\ alast' = ret
         /\ UNCHANGED afault

\* Bind of a node to the attributes of its type.
AttrInit ==
    /\ \E tm \in NodeTypeAttrMaps, self \in [Slots -> FieldNodes] :
           attrs = Bind(tm, self)
    /\ afault = FALSE
    /\ alast = NoAttrCall

AttrAddNode(node, overwrite) ==
    /\ ~afault
    /\ LET r == NodeAttrMapAddNode(attrs, node, overwrite)
       IN  AttrCallEnds(r, AttrReturned("AddNode", node, overwrite,
                                        node.name, 0, r))
    /\ UNCHANGED notAttrVars

AttrGetName(name) ==
    /\ ~afault
    /\ LET r == NodeAttrMapGetName(attrs, name)
       IN  AttrCallEnds(r, AttrReturned("GetName", NilMapNode, FALSE, name,
                                        0, r))
    /\ UNCHANGED notAttrVars

AttrGetIndex(i) ==
    /\ ~afault
    /\ LET r == NodeAttrMapGetIndex(attrs, i)
       IN  AttrCallEnds(r, AttrReturned("GetIndex", NilMapNode, FALSE,
                                        MakeString(<<>>), i, r))
    /\ UNCHANGED notAttrVars

AttrRemoveIndex(i) ==
    /\ ~afault
    /\ LET r == NodeAttrMapRemoveIndex(attrs, i)
       IN  AttrCallEnds(r, AttrReturned("RemoveIndex", NilMapNode, FALSE,
                                        MakeString(<<>>), i, r))
    /\ UNCHANGED notAttrVars

AttrRemoveName(name) ==
    /\ ~afault
    /\ LET r == NodeAttrMapRemoveName(attrs, name)
       IN  AttrCallEnds(r, AttrReturned("RemoveName", NilMapNode, FALSE,
                                        name, 0, r))
    /\ UNCHANGED notAttrVars

AttrRemove(node) ==
    /\ ~afault
    /\ LET r == NodeAttrMapRemove(attrs, node)
       IN  AttrCallEnds(r, AttrReturned("Remove", node, FALSE, node.name,
                                        0, r))
    /\ UNCHANGED notAttrVars

AttrNext ==
    \/ \E node \in MapNodes, overwrite \in BOOLEAN :
           AttrAddNode(node, overwrite)
    \/ \E name \in AskNames : AttrGetName(name)
    \/ \E i \in AttrIndexes : AttrGetIndex(i)
    \/ \E i \in AttrIndexes : AttrRemoveIndex(i)
    \/ \E name \in AskNames : AttrRemoveName(name)
    \/ \E node \in MapNodes : AttrRemove(node)

\* ------------------------------------------------------------------------
\* The factory: definitions, nodes, classes at work
\* ------------------------------------------------------------------------

\* The most NodeDefs a definition tree has.
MaxDefs == 3

\* The registrations other goroutines make while the factory works.
MaxForeign == 1

\* The name and the class URI a NodeDef has, one of: A of class x:p#A, a of
\* class x:p#a (the same name and the same class in another letter case), P
\* of class x:p#A, N of the root class.
DefSorts ==
    { [Name |-> MakeString(<<"A">>), ClassURI |-> URL(<<"x">>, <<"p">>, <<"A">>)],
      [Name |-> MakeString(<<"a">>), ClassURI |-> URL(<<"x">>, <<"p">>, <<"a">>)],
      [Name |-> MakeString(<<"P">>), ClassURI |-> URL(<<"x">>, <<"p">>, <<"A">>)],
      [Name |-> MakeString(<<"N">>),
       ClassURI |-> URL(<<"i", "m", "p", "o", "r", "t">>,
                        <<"n", "o", "d", "e", "s">>, NodeFragment)] }

\* The NodeDef trees of n definitions: definition 1 is the root, the Parent
\* of every other one is a definition made before it (0 is the nil
\* *NodeDef), and Children lists a definition's children in the order
\* NewChild appended them.
DefParents(n) ==
    {pm \in [1..n -> 0..(n - 1)] :
        /\ pm[1] = 0
        /\ \A d \in 2..n : pm[d] >= 1 /\ pm[d] < d}

NewNodeDef(sort, parentdef, children) ==
    [Name |-> sort.Name, Parent |-> parentdef, ClassURI |-> sort.ClassURI,
     Children |-> children, Value |-> <<"v">>]

DefTree(pm, sorts) ==
    [d \in DOMAIN pm |->
        NewNodeDef(sorts[d], pm[d],
                   SortedSeq({c \in DOMAIN pm : pm[c] = d}))]

DefTrees ==
    UNION {{DefTree(pm, sorts) :
               pm \in DefParents(n), sorts \in [1..n -> DefSorts]} :
           n \in 1..MaxDefs}

\* The classes other goroutines register: one whose Alloc and Init work, one
\* whose Alloc returns an error and one whose Init returns an error.
ForeignClasses == {ClassRef("UserClass", i) : i \in 0..2}

\* The URIs they register them under: a class's and its structural base's.
ForeignURIs == {URL(<<"x">>, <<"p">>, <<"a">>), URL(<<"x">>, <<"p">>, NodeFragment)}

\* The Node a caller passes as parent that no CreateNode made.
OuterNode == 0 - 1

\* "import:nodes#node" and "import:nodes#String" as URLs.
NodeClassURI ==
    URL(<<"i", "m", "p", "o", "r", "t">>, <<"n", "o", "d", "e", "s">>,
        <<"n", "o", "d", "e">>)

StringClassURI ==
    URL(<<"i", "m", "p", "o", "r", "t">>, <<"n", "o", "d", "e", "s">>,
        <<"S", "t", "r", "i", "n", "g">>)

\* What Alloc returns: a node with zero fields; its NodeChildren is the nil
\* NodeMap (nilChildren) until Init makes one.
ZeroNode(type) ==
    [type |-> type, NodeClass |-> NilClass, NodeName |-> MakeString(<<>>),
     NodeParent |-> NilNode, NodeChildren |-> NodeMapOf(<<>>, <<>>),
     nilChildren |-> TRUE]

\* What String.Alloc returns: new(StringNode).
ZeroStringNode ==
    [type |-> "StringNode", name |-> MakeString(<<>>), parent |-> NilNode,
     value |-> MakeString(<<>>)]

AllocFailed == [kind |-> "AllocFailed"]

\* The errors.Errorf of String.Init.
StringCannotInit == [kind |-> "StringCannotInit"]

InitFailed == [kind |-> "InitFailed"]

WrongNodeType == [kind |-> "WrongNodeType"]

\* cls.Alloc(nodeDef): the new node, or the error.
Alloc(obj, def) ==
    IF obj.allocator = "allocBasicNode"
    THEN [node |-> ZeroNode("BasicNode"), err |-> NilErr]
    ELSE IF obj.allocator = "allocUser"
    THEN [node |-> ZeroNode("UserNode"), err |-> NilErr]
    ELSE IF obj.allocator = "allocString"
    THEN [node |-> ZeroStringNode, err |-> NilErr]
    ELSE [node |-> ZeroNode("none"), err |-> AllocFailed]

\* NewNodeMap(capacity): an empty nodemap.
NewNodeMap(capacity) == NodeMapOf(<<>>, <<>>)

\* An InitLeafNode that leaves the parent unset.
InitLeafNodeNoParent(reg, n, parentnode, def) ==
    LET got == GetClassByURI(reg, def.ClassURI)
    IN  IF got.err # NilErr
        THEN [node |-> [n EXCEPT !.NodeClass = got.cls],
              err |-> [kind |-> "InitLeafNode", cause |-> got.err]]
        ELSE [node |-> [n EXCEPT !.NodeClass = got.cls,
                                 !.NodeName = def.Name],
              err |-> NilErr]

\* InitLeafNode: the class is the one registered under the definition's
\* ClassURI (an error when there is none), the name the definition's, the
\* parent the one given.
InitLeafNode(reg, n, parentnode, def) ==
    LET got == GetClassByURI(reg, def.ClassURI)
    IN  IF got.err # NilErr
        THEN [node |-> [n EXCEPT !.NodeClass = got.cls],
              err |-> [kind |-> "InitLeafNode", cause |-> got.err]]
        ELSE [node |-> [n EXCEPT !.NodeClass = got.cls,
                                 !.NodeName = def.Name,
                                 !.NodeParent = parentnode],
              err |-> NilErr]

\* initBasicNode: InitLeafNode, then a new nodemap for the children.
initBasicNode(reg, n, parentnode, def) ==
    IF n.type # "BasicNode"
    THEN [node |-> n, err |-> WrongNodeType]
    ELSE LET leaf == InitLeafNode(reg, n, parentnode, def)
         IN  IF leaf.err # NilErr
             THEN leaf
             ELSE [node |-> [leaf.node EXCEPT
                                !.NodeChildren =
                                    NewNodeMap(Len(def.Children)),
                                !.nilChildren = FALSE],
                   err |-> NilErr]

\* The Init of another goroutine's class: what initBasicNode does, for its
\* own node type.
initUser(reg, n, parentnode, def) ==
    IF n.type # "UserNode"
    THEN [node |-> n, err |-> WrongNodeType]
    ELSE LET leaf == InitLeafNode(reg, n, parentnode, def)
         IN  IF leaf.err # NilErr
             THEN leaf
             ELSE [node |-> [leaf.node EXCEPT
                                !.NodeChildren =
                                    NewNodeMap(Len(def.Children)),
                                !.nilChildren = FALSE],
                   err |-> NilErr]

\* String.Init: a StringNode gets the definition's name and, as a String,
\* its value; whatever self is, the errors.Errorf after the if statement is
\* what is returned.
initString(n, parentnode, def) ==
    IF n.type = "StringNode"
    THEN [node |-> [n EXCEPT !.name = def.Name,
                             !.value = MakeString(def.Value)],
          err |-> StringCannotInit]
    ELSE [node |-> n, err |-> StringCannotInit]

\* cls.Init(node, parent, nodeDef): the node after it and the error.
InitOf(obj, reg, n, parentnode, def) ==
    IF obj.initializer = "initBasicNode"
    THEN initBasicNode(reg, n, parentnode, def)
    ELSE IF obj.initializer = "initUser"
    THEN initUser(reg, n, parentnode, def)
    ELSE IF obj.initializer = "initString"
    THEN initString(n, parentnode, def)
    ELSE [node |-> n, err |-> InitFailed]

\* The errors.ErrorfWithCause of CreateNode.
CreateNodeError(what, cause) ==
    [kind |-> "CreateNode", what |-> what, cause |-> cause]

\* The Node value of a node of the factory: the pointer and what Name gives.
NodeValue(nodes, id) == [id |-> id, name |-> nodes[id].NodeName]

\* A call of CreateNode at work: the definition it builds, the parent it was
\* given, where it is, the class it found or made, whether it found none at
\* first, the node it allocated and the child it works on.
Frame(def, parentnode) ==
    [def |-> def, parent |-> parentnode, pc |-> "resolve", cls |-> NilClass,
     dynamic |-> FALSE, node |-> NilNode, i |-> 1]

\* The caller of CreateNode: what it passed and what it got.
NoBuild == [state |-> "idle", parent |-> NilNode, node |-> NilNode,
            err |-> NilErr]

\* ------------------------------------------------------------------------
\* The factory: initial state and steps
\* ------------------------------------------------------------------------

\* A definition tree a loader made, the registry as init() leaves it, and no
\* call of CreateNode yet.
BuildInit ==
    /\ defs \in DefTrees
    /\ built = <<>>
    /\ stack = <<>>
    /\ bcall = NoBuild
    /\ blog = <<>>

\* The call of CreateNode that is at work, and the stack below it.
Top == stack[Len(stack)]

Below == SubSeq(stack, 1, Len(stack) - 1)

SetTop(f) == stack' = Below \o <<f>>

\* CreateNode returns nil and an error: every call above returns it as it
\* is, up to the caller.
BuildFails(err) ==
    /\ stack' = <<>>
    /\ bcall' = [bcall EXCEPT !.state = "returned", !.node = NilNode,
                              !.err = err]

\* A caller calls CreateNode(parent, nodeDef) with the root definition.
CreateNodeCall(parentnode) ==
    /\ bcall.state = "idle"
    /\ bcall' = [bcall EXCEPT !.state = "running", !.parent = parentnode]
    /\ stack' = <<Frame(1, parentnode)>>
    /\ UNCHANGED <<defs, built, blog, regVars, notBuildVars>>

\* CreateNode begins: GetClassByURI of the definition's ClassURI.
CreateNodeResolve ==
    /\ stack # <<>>
    /\ Top.pc = "resolve"
    /\ blog' = Append(blog, Top.def)
    /\ LET got == GetClassByURI(classRegistry, defs[Top.def].ClassURI)
       IN  IF got.err = NilErr
           THEN SetTop([Top EXCEPT !.pc = "alloc", !.cls = got.cls])
           ELSE SetTop([Top EXCEPT !.pc = "check", !.dynamic = TRUE])
    /\ UNCHANGED <<defs, built, bcall, regVars, notBuildVars>>

\* CreateDynamicClass, called for the class that was not found: its
\* existence check. A class found now ends CreateNode with an error.
CreateNodeDynamicCheck ==
    /\ stack # <<>>
    /\ Top.pc = "check"
    /\ LET got == GetClassByURI(classRegistry, defs[Top.def].ClassURI)
       IN  IF AlreadyRegistered(got)
           THEN BuildFails(CreateNodeError("class",
                                           DuplicateClass(got.cls)))
           ELSE /\ SetTop([Top EXCEPT !.pc = "base"])
                /\ UNCHANGED bcall
    /\ UNCHANGED <<defs, built, blog, regVars, notBuildVars>>

\* CreateDynamicClass goes on: GetBaseClassFromURI and the new nodeclass.
CreateNodeDynamicBase ==
    /\ stack # <<>>
    /\ Top.pc = "base"
    /\ LET uri == defs[Top.def].ClassURI
           base == GetBaseClassFromURI(classRegistry, uri)
       IN  heap' = Append(heap, DynamicClass(uri, base))
    /\ SetTop([Top EXCEPT !.pc = "register",
                          !.cls = DynamicRef(Len(heap) + 1)])
    /\ UNCHANGED <<defs, built, bcall, blog, classRegistry, regLog, rpc, arg,
                   newcls, last, calls, notBuildVars>>

\* CreateDynamicClass ends: RegisterClass of the new class. Its error ends
\* CreateNode with an error.
CreateNodeDynamicRegister ==
    /\ stack # <<>>
    /\ Top.pc = "register"
    /\ LET uri == defs[Top.def].ClassURI
           r == RegisterClass(classRegistry, uri, Top.cls)
       IN  /\ classRegistry' = r.registry
           /\ regLog' = IF r.inserted
                        THEN regLog \cup {[uri |-> URLString(uri),
                                           cls |-> Top.cls]}
                        ELSE regLog
           /\ IF r.err # NilErr
              THEN BuildFails(CreateNodeError("class", r.err))
              ELSE /\ SetTop([Top EXCEPT !.pc = "alloc"])
                   /\ UNCHANGED bcall
    /\ UNCHANGED <<defs, built, blog, heap, rpc, arg, newcls, last, calls,
                   notBuildVars>>

\* CreateNode goes on: cls.Alloc, then cls.Init with the parent. An error of
\* either ends CreateNode with an error.
CreateNodeInstantiate ==
    /\ stack # <<>>
    /\ Top.pc = "alloc"
    /\ LET def == defs[Top.def]
           obj == ClassObject(Top.cls)
           al == Alloc(obj, def)
           ini == InitOf(obj, classRegistry, al.node, Top.parent, def)
       IN  IF al.err # NilErr
           THEN /\ BuildFails(CreateNodeError("alloc", al.err))
                /\ UNCHANGED built
           ELSE /\ built' = Append(built, ini.node)
                /\ IF ini.err # NilErr
                   THEN BuildFails(CreateNodeError("init", ini.err))
                   ELSE /\ SetTop([Top EXCEPT !.pc = "children",
                                              !.node = Len(built) + 1])
                        /\ UNCHANGED bcall
    /\ UNCHANGED <<defs, blog, regVars, notBuildVars>>

\* A loop that takes each child definition out of Children.
RangedOverTaking(def, i) ==
    [def EXCEPT !.Children = SubSeq(def.Children, 1, i - 1)
                                 \o SubSeq(def.Children, i + 1,
                                           Len(def.Children))]

\* The definition after the loop has read Children[i]: as it was.
RangedOver(def, i) == def

\* The loop over nodeDef.Children: CreateNode of the next child definition
\* with the node as parent.
CreateNodeChild ==
    /\ stack # <<>>
    /\ Top.pc = "children"
    /\ Top.i <= Len(defs[Top.def].Children)
    /\ stack' = Below \o <<[Top EXCEPT !.pc = "attach"],
                            Frame(defs[Top.def].Children[Top.i], Top.node)>>
    /\ defs' = [defs EXCEPT ![Top.def] = RangedOver(defs[Top.def], Top.i)]
    /\ UNCHANGED <<built, bcall, blog, regVars, notBuildVars>>

\* An attach that puts the child over an entry of its name.
AttachOverwriting(m, child) == AddNode(m, child, TRUE)

\* node.Children().AddNode(child, false).
Attach(m, child) == AddNode(m, child, FALSE)

\* The loop is over: CreateNode returns the node. The caller has it; a
\* CreateNode that called for a child adds it to its node's children, and an
\* error of AddNode ends it with an error.
CreateNodeReturn ==
    /\ stack # <<>>
    /\ Top.pc = "children"
    /\ Top.i > Len(defs[Top.def].Children)
    /\ IF Len(stack) = 1
       THEN /\ stack' = <<>>
            /\ bcall' = [bcall EXCEPT !.state = "returned",
                                      !.node = Top.node]
            /\ UNCHANGED built
       ELSE LET up == stack[Len(stack) - 1]
                r == Attach(built[up.node].NodeChildren,
                            NodeValue(built, Top.node))
            IN  IF r.err # NilErr
                THEN /\ BuildFails(CreateNodeError("attach", r.err))
                     /\ UNCHANGED built
                ELSE /\ built' = [built EXCEPT ![up.node].NodeChildren = r.m]
                     /\ stack' = SubSeq(stack, 1, Len(stack) - 2)
                                     \o <<[up EXCEPT !.pc = "children",
                                                     !.i = up.i + 1]>>
                     /\ UNCHANGED bcall
    /\ UNCHANGED <<defs, blog, regVars, notBuildVars>>

\* Another goroutine calls RegisterClass(uri, cls).
ForeignRegister(uri, cls) ==
    /\ calls < MaxForeign
    /\ calls' = calls + 1
    /\ LET r == RegisterClass(classRegistry, uri, cls)
       IN  /\ classRegistry' = r.registry
           /\ regLog' = IF r.inserted
                        THEN regLog \cup {[uri |-> URLString(uri),
                                           cls |-> cls]}
                        ELSE regLog
    /\ UNCHANGED <<buildVars, heap, rpc, arg, newcls, last, notBuildVars>>

BuildNext ==
    \/ \E parentnode \in {NilNode, OuterNode} : CreateNodeCall(parentnode)
    \/ CreateNodeResolve
    \/ CreateNodeDynamicCheck
    \/ CreateNodeDynamicBase
    \/ CreateNodeDynamicRegister
    \/ CreateNodeInstantiate
    \/ CreateNodeChild
    \/ CreateNodeReturn
    \/ \E uri \in ForeignURIs, cls \in ForeignClasses :
           ForeignRegister(uri, cls)

\* ------------------------------------------------------------------------
\* Loading: URI loaders and CreateNodeDef
\* ------------------------------------------------------------------------

\* The RegisterURILoader calls made after createSkink.
MaxLoaders == 2

\* The URIs asked for: scheme and path.Ext of the path.
LoadURI(scheme, ext) == [scheme |-> scheme, ext |-> ext]

LoadURIs ==
    { LoadURI("file", <<".", "x", "m", "l">>),
      LoadURI("file", <<".", "X", "M", "L">>),
      LoadURI("file", <<".", "t", "x", "t">>),
      LoadURI("http", <<".", "x", "m", "l">>),
      LoadURI("ftp", <<".", "x", "m", "l">>) }

\* The loader functions there are: the two createSkink registers and two of
\* a caller's.
LoaderFuncs == {"loadhttp", "LoadXMLFile", "loaderA", "loaderB"}

\* The loader functions a caller registers.
CallerLoaders == {"loaderA", "loaderB"}

\* CanLoadXMLFile: the scheme is "file" and the lower-cased extension is
\* ".xml".
CanLoadXMLFile(uri) ==
    uri.scheme = "file" /\ ToLower(uri.ext) = <<".", "x", "m", "l">>

\* The filter functions there are: nil and CanLoadXMLFile.
FilterFuncs == {"nil", "CanLoadXMLFile"}

\* ul.filter(uri), for a filter that is not nil.
FilterAccepts(filter, uri) == CanLoadXMLFile(uri)

\* The uriloader struct.
URILoader(loader, filter, schemes) ==
    [loader |-> loader, filter |-> filter, schemes |-> schemes]

\* The scheme lists a caller registers a loader for.
SchemeLists == { <<"file", "http">> }

\* RegisterURILoader: the uriloader is appended to the slice of each of the
\* schemes in turn, a new slice for a scheme that has none.
RECURSIVE AppendForSchemes(_, _, _)
AppendForSchemes(loaders, ul, schemes) ==
    IF schemes = <<>>
    THEN loaders
    ELSE LET scheme == Head(schemes)
             slice == IF scheme \in DOMAIN loaders THEN loaders[scheme]
                                                   ELSE <<>>
         IN  AppendForSchemes(
                 [k \in DOMAIN loaders \cup {scheme} |->
                     IF k = scheme THEN Append(slice, ul) ELSE loaders[k]],
                 ul, Tail(schemes))

\* The errors of CreateNodeDef.
NoLoaderForScheme(scheme) == [kind |-> "NoLoaderForScheme", scheme |-> scheme]

NoLoaderLoaded(uri) == [kind |-> "NoLoaderLoaded", uri |-> uri]

\* The error a loader returns.
LoaderFailed(loader) == [kind |-> "LoaderFailed", loader |-> loader]

\* errors.ErrorfWithCauseAndContext(err, lasterr, ...): the chain so far with
\* this failure in front.
ChainedFailure(err, lasterr) == <<err>> \o lasterr

\* What ul.loader(uri) returns where works is the set of the loader
\* functions that can load now: a definition, or an error.
LoaderResult(ul, uri, works) ==
    IF ul.loader \in works
    THEN [nodedef |-> [loadedBy |-> ul.loader, uri |-> uri], err |-> NilErr]
    ELSE [nodedef |-> [loadedBy |-> "nil", uri |-> uri],
          err |-> LoaderFailed(ul.loader)]

NilNodeDef(uri) == [loadedBy |-> "nil", uri |-> uri]

\* The loop of CreateNodeDef taking the loaders in the order registered.
CandidateOldestFirst(schemes, i) == i + 1

\* The loop of CreateNodeDef: round i (from 0) takes
\* schemes[len(schemes)-1-i]. The position is from 1.
Candidate(schemes, i) == Len(schemes) - i

\* The loop from round i on: a loader whose filter is there and refuses is
\* passed over; the first loader that returns no error ends the loop with
\* its definition; a failure is chained before the ones so far. invoked
\* lists the positions of the loaders called, in order.
RECURSIVE LoaderLoop(_, _, _, _, _, _)
LoaderLoop(schemes, uri, works, i, lasterr, invoked) ==
    IF i >= Len(schemes)
    THEN [nodedef |-> NilNodeDef(uri),
          err |-> IF lasterr = <<>> THEN NoLoaderLoaded(uri)
                  ELSE [kind |-> "LoadChain", chain |-> lasterr],
          invoked |-> invoked]
    ELSE LET at == Candidate(schemes, i)
             ul == schemes[at]
         IN  IF ul.filter # "nil" /\ ~FilterAccepts(ul.filter, uri)
             THEN LoaderLoop(schemes, uri, works, i + 1, lasterr, invoked)
             ELSE LET r == LoaderResult(ul, uri, works)
                  IN  IF r.err = NilErr
                      THEN [nodedef |-> r.nodedef, err |-> NilErr,
                            invoked |-> Append(invoked, at)]
                      ELSE LoaderLoop(schemes, uri, works, i + 1,
                                      ChainedFailure(r.err, lasterr),
                                      Append(invoked, at))

\* CreateNodeDef: an error for a scheme with no loaders, else the loop.
CreateNodeDef(loaders, uri, works) ==
    IF uri.scheme \notin DOMAIN loaders
    THEN [nodedef |-> NilNodeDef(uri),
          err |-> NoLoaderForScheme(uri.scheme), invoked |-> <<>>]
    ELSE LoaderLoop(loaders[uri.scheme], uri, works, 0, <<>>, <<>>)

\* ------------------------------------------------------------------------
\* Loading: initial state and steps
\* ------------------------------------------------------------------------

NoLoad == [op |-> "none"]

\* createSkink: loadhttp for http and https with no filter, LoadXMLFile for
\* file with CanLoadXMLFile.
LoadInit ==
    /\ uriloaders =
           AppendForSchemes(
               AppendForSchemes(<<>>,
                                URILoader("loadhttp", "nil",
                                          <<"http", "https">>),
                                <<"http", "https">>),
               URILoader("LoadXMLFile", "CanLoadXMLFile", <<"file">>),
               <<"file">>)
    /\ registered = 0
    /\ loaded = NoLoad

\* A caller calls RegisterURILoader(loader, filter, schemes...).
RegisterURILoader(loader, filter, schemes) ==
    /\ registered < MaxLoaders
    /\ registered' = registered + 1
    /\ uriloaders' = AppendForSchemes(uriloaders,
                                      URILoader(loader, filter, schemes),
                                      schemes)
    /\ UNCHANGED <<loaded, notLoadVars>>

\* A caller calls CreateNodeDef(uri) while the loader functions of works can
\* load.
LoadCreateNodeDef(uri, works) ==
    /\ LET r == CreateNodeDef(uriloaders, uri, works)
       IN  loaded' = [op |-> "CreateNodeDef", uri |-> uri, works |-> works,
                      nodedef |-> r.nodedef, err |-> r.err,
                      invoked |-> r.invoked]
    /\ UNCHANGED <<uriloaders, registered, notLoadVars>>

LoadNext ==
    \/ \E loader \in CallerLoaders, filter \in FilterFuncs,
          schemes \in SchemeLists :
           RegisterURILoader(loader, filter, schemes)
    \/ \E uri \in LoadURIs, works \in SUBSET LoaderFuncs :
           LoadCreateNodeDef(uri, works)

\* ------------------------------------------------------------------------
\* Process startup: package-level variables, then the init functions
\* ------------------------------------------------------------------------

\* The source files of the package that declare package-level variables
\* with an initialiser, or an init function.
StartupFiles == {"call.go", "nodedef.go", "skink.go", "string.go"}

\* The variables a file declares with an initialiser, in declaration order.
\* classRegistry and GlobalSkink are declared without one: they start as
\* the zero value, nil.
DeclaredIn(file) ==
    CASE file = "call.go" ->
             <<"nodeClassValue", "NodeClass", "classRegistryMutex">>
      [] file = "nodedef.go" -> <<"ValueString">>
      [] file = "skink.go" -> <<"logger">>
      [] file = "string.go" ->
             <<"stringClassURIValue", "StringClass", "stringClassName",
               "StringClassURI", "nameAttrString">>

\* The variables with an initialiser that a variable's initialiser refers
\* to, directly or through the functions it names.
DependsOn(v) ==
    CASE v = "NodeClass" -> {"nodeClassValue"}
      [] v = "nodeClassValue" -> {"classRegistryMutex", "logger"}
      [] v = "StringClass" -> {"classRegistryMutex", "logger"}
      [] v = "StringClassURI" -> {"stringClassURIValue"}
      [] OTHER -> {}

\* The files that have an init function.
HasInit(file) == file \in {"call.go", "skink.go"}

\* The orders the files can be presented to the compiler in.
FileOrders ==
    { o \in [1..Cardinality(StartupFiles) -> StartupFiles] :
        \A i, j \in DOMAIN o : i # j => o[i] # o[j] }

\* The variables in declaration order, for an order of the files.
RECURSIVE Declarations(_)
Declarations(order) ==
    IF order = <<>> THEN <<>>
    ELSE DeclaredIn(Head(order)) \o Declarations(Tail(order))

\* The next variable to initialise: the earliest in declaration order that
\* is not initialised and depends on no uninitialised variable; 0 for none.
NextVariable(order, done) ==
    LET decl == Declarations(order)
        ready == { i \in DOMAIN decl :
                     decl[i] \notin done /\ DependsOn(decl[i]) \subseteq done }
    IN  IF ready = {} THEN 0
        ELSE CHOOSE i \in ready : \A j \in ready : i <= j

\* The init functions in the order they run: that of the files.
InitFunctions(order) == SelectSeq(order, HasInit)

\* "import:nodes#String", the string StringClass is registered under.
StringClassURIString ==
    <<"i", "m", "p", "o", "r", "t", ":", "n", "o", "d", "e", "s", "#",
      "S", "t", "r", "i", "n", "g">>

\* An assignment to an entry of a nil map.
NilMapWrite == "assignment to entry in nil map"

\* MustRegisterClassString(uri, cls) on a registry map that is nil or made:
\* RegisterClassString reads the map, which a nil map allows, and assigns
\* to classRegistry[key], which panics on a nil map; an error of
\* RegisterClassString is made a panic.
MustRegisterClassString(made, reg, uri, cls) ==
    LET r == RegisterClassString(reg, uri, cls)
    IN  IF r.err # NilErr
        THEN [registry |-> reg, panic |-> "already registered"]
        ELSE IF ~made
        THEN [registry |-> reg, panic |-> NilMapWrite]
        ELSE [registry |-> r.registry, panic |-> "none"]

\* The init function of call.go: classRegistry becomes a new map holding
\* the root class under "import:nodes#node".
RegistryInit(reg) == [k \in {NodeClassKey} |-> NodeClass]

\* The state of the startup: the order of the files, the variables
\* initialised, the init functions run, whether classRegistry is a map yet,
\* and the panic that ended the process.
Startup(order, done, ran, made, panic) ==
    [order |-> order, done |-> done, ran |-> ran, made |-> made,
     panic |-> panic]

NoStartup == [order |-> <<>>]

\* No variable is initialised and classRegistry is nil.
StartupInit ==
    /\ \E order \in FileOrders :
           startup = Startup(order, {}, 0, FALSE, "none")
    /\ classRegistry = <<>>
    /\ heap = <<>>
    /\ regLog = {}
    /\ rpc = <<>>
    /\ arg = <<>>
    /\ newcls = <<>>
    /\ last = NoCall
    /\ calls = 0

\* The startup is over: every variable is initialised and every init
\* function has run, or the process panicked.
StartupEnded ==
    \/ startup.panic # "none"
    \/ /\ NextVariable(startup.order, startup.done) = 0
       /\ startup.ran = Len(InitFunctions(startup.order))

\* The next step of the startup: the next variable's initialiser is run,
\* that of StringClass calling MustRegisterClassString; with every variable
\* initialised the next init function runs, that of skink.go panicking when
\* the temporary directory cannot be made.
StartupStep ==
    /\ ~StartupEnded
    /\ LET at == NextVariable(startup.order, startup.done)
           v == Declarations(startup.order)[at]
           r == MustRegisterClassString(startup.made, classRegistry,
                                        StringClassURIString, StringClass)
       IN  IF at # 0
           THEN IF v = "StringClass"
                THEN /\ classRegistry' = r.registry
                     /\ regLog' = IF r.panic = "none"
                                  THEN regLog \cup
                                       {[uri |-> StringClassURIString,
                                         cls |-> StringClass]}
                                  ELSE regLog
                     /\ startup' = [startup EXCEPT
                                      !.done = IF r.panic = "none"
                                               THEN @ \cup {v} ELSE @,
                                      !.panic = r.panic]
                ELSE /\ startup' = [startup EXCEPT !.done = @ \cup {v}]
                     /\ UNCHANGED <<classRegistry, regLog>>
           ELSE IF InitFunctions(startup.order)[startup.ran + 1] = "call.go"
                THEN /\ classRegistry' = RegistryInit(classRegistry)
                     /\ regLog' = regLog \cup
                                  {[uri |-> NodeClassKey, cls |-> NodeClass]}
                     /\ startup' = [startup EXCEPT !.ran = @ + 1,
                                                   !.made = TRUE]
                ELSE /\ \E panic \in {"none", "no temporary directory"} :
                          startup' = [startup EXCEPT
                                        !.ran = IF panic = "none"
                                                THEN @ + 1 ELSE @,
                                        !.panic = panic]
                     /\ UNCHANGED <<classRegistry, regLog>>
    /\ UNCHANGED <<heap, rpc, arg, newcls, last, calls, notProcVars>>

StartupNext == StartupStep

\* ------------------------------------------------------------------------
\* The String class: Alloc, Init and CreateNode of a String definition
\* ------------------------------------------------------------------------

\* The names and the raw values the String definitions have.
StringDefNames == {<<>>, <<"A">>, <<"a">>, <<"N">>}

StringDefValues == {<<>>, <<"v">>, <<"V">>, <<"A", "a">>}

\* The childless definitions of class "import:nodes#String".
StringDefs ==
    { [Name |-> MakeString(name), Parent |-> 0, ClassURI |-> StringClassURI,
       Children |-> <<>>, Value |-> value] :
        name \in StringDefNames, value \in StringDefValues }

\* The instances String.Init is called on: what String.Alloc made, what
\* allocBasicNode made, and the nil Node.
StringSelves ==
    {ZeroStringNode, ZeroNode("BasicNode"), ZeroNode("none")}

\* The registry as the startup is meant to leave it: the root class and the
\* String class.
BuiltinRegistry ==
    RegisterClassString(RegistryInit(<<>>), StringClassURIString,
                        StringClass).registry

\* CreateNode(parent, nodeDef) for a definition without children whose class
\* is registered: GetClassByURI, cls.Alloc, cls.Init and, with no child to
\* build, the node; nil and the error when Alloc or Init returns one.
CreateNodeChildless(reg, parentnode, def) ==
    LET got == GetClassByURI(reg, def.ClassURI)
        obj == ClassObject(got.cls)
        al == Alloc(obj, def)
        ini == InitOf(obj, reg, al.node, parentnode, def)
    IN  IF al.err # NilErr
        THEN [node |-> ZeroNode("none"), made |-> al.node,
              err |-> CreateNodeError("alloc", al.err)]
        ELSE IF ini.err # NilErr
        THEN [node |-> ZeroNode("none"), made |-> ini.node,
              err |-> CreateNodeError("init", ini.err)]
        ELSE [node |-> ini.node, made |-> ini.node, err |-> NilErr]

NoStringCall == [op |-> "none"]

StringInit ==
    /\ strcall = NoStringCall
    /\ classRegistry = BuiltinRegistry
    /\ heap = <<>>
    /\ regLog = {[uri |-> NodeClassKey, cls |-> NodeClass],
                 [uri |-> StringClassURIString, cls |-> StringClass]}
    /\ rpc = <<>>
    /\ arg = <<>>
    /\ newcls = <<>>
    /\ last = NoCall
    /\ calls = 0

\* A caller calls CreateNode(parent, nodeDef) with a String definition.
StringCreateNode(parentnode, def) ==
    /\ GetClassByURI(classRegistry, def.ClassURI).err = NilErr
    /\ LET r == CreateNodeChildless(classRegistry, parentnode, def)
       IN  strcall' = [op |-> "CreateNode", def |-> def,
                       parent |-> parentnode, self |-> ZeroNode("none"),
                       node |-> r.node, made |-> r.made, err |-> r.err]
    /\ UNCHANGED <<regVars, notStringVars>>

\* A caller calls StringClass.Init(self, parent, nodeDef).
StringClassInit(self, parentnode, def) ==
    /\ LET r == initString(self, parentnode, def)
       IN  strcall' = [op |-> "Init", def |-> def, parent |-> parentnode,
                       self |-> self, node |-> r.node, made |-> r.node,
                       err |-> r.err]
    /\ UNCHANGED <<regVars, notStringVars>>

StringNext ==
    \/ \E parentnode \in {NilNode, OuterNode}, def \in StringDefs :
           StringCreateNode(parentnode, def)
    \/ \E self \in StringSelves, parentnode \in {NilNode, OuterNode},
          def \in StringDefs :
           StringClassInit(self, parentnode, def)

\* ------------------------------------------------------------------------
\* Paths: FindParents and GetPath
\* ------------------------------------------------------------------------

\* The most nodes the trees have that GetPath is called on.
MaxPathNodes == 3

\* The names the nodes of those trees have.
PathNames == {<<"A">>, <<"a">>, <<"N", "P">>}

\* NodePathSeparator.
NodePathSeparator == <<".">>

\* strings.Join(elems, sep).
RECURSIVE Join(_, _)
Join(elems, sep) ==
    IF elems = <<>> THEN <<>>
    ELSE IF Len(elems) = 1 THEN elems[1]
    ELSE elems[1] \o sep \o Join(Tail(elems), sep)

\* What the iterator of FindParents(node, TruePred) yields, call after
\* call: the node it was given first, then that node's Parent(), and so on
\* until the parent is nil.
RECURSIVE FindParentsAll(_, _)
FindParentsAll(nodes, node) ==
    IF node = NilNode THEN <<>>
    ELSE <<node>> \o FindParentsAll(nodes, nodes[node].NodeParent)

\* GetPath(node): parents starts as the node and gets everything the
\* iterator yields appended; reversed holds their names back to front; the
\* names are joined with the separator.
GetPath(nodes, node) ==
    LET parents == <<node>> \o FindParentsAll(nodes, node)
        reversed == [i \in 1..Len(parents) |->
                        nodes[parents[Len(parents) + 1 - i]].NodeName.value]
    IN  [reversed |-> reversed, path |-> Join(reversed, NodePathSeparator)]

NoPathCall == [op |-> "none"]

\* A tree of named nodes, node 1 the root, and no call yet.
PathInit ==
    /\ \E k \in 1..MaxPathNodes :
         \E pm \in ParentMaps(k), names \in [1..k -> PathNames] :
             pnodes = [n \in 1..k |->
                          [NodeName |-> MakeString(names[n]),
                           NodeParent |-> pm[n]]]
    /\ pathcall = NoPathCall

\* A caller calls GetPath(node).
CallGetPath(node) ==
    /\ LET r == GetPath(pnodes, node)
       IN  pathcall' = [op |-> "GetPath", node |-> node,
                        reversed |-> r.reversed, path |-> r.path]
    /\ UNCHANGED <<pnodes, notPathVars>>

PathNext == \E node \in DOMAIN pnodes : CallGetPath(node)

\* ------------------------------------------------------------------------
\* Specifications
\* ------------------------------------------------------------------------

\* The lifecycle with no tree and nothing to run.
LifeIdle ==
    /\ parent = <<>>
    /\ kind = <<>>
    /\ initNoder = <<>>
    /\ startNoder = <<>>
    /\ fault = FALSE
    /\ mainpc = "done"
    /\ ipc = <<>>
    /\ idx = <<>>
    /\ wg = <<>>
    /\ ce = <<>>
    /\ tmp = <<>>
    /\ agg = <<>>
    /\ result = <<>>
    /\ initCalls = <<>>
    /\ ires = <<>>
    /\ initRet = NilErr
    /\ queue = <<>>
    /\ swg = 0
    /\ sce = <<>>
    /\ spc = <<>>
    /\ stmp = <<>>
    /\ sres = <<>>
    /\ dispatched = <<>>
    /\ startCalls = <<>>
    /\ startArg = <<>>
    /\ startRet = NilErr

\* The registry with no caller at work.
RegIdle ==
    /\ classRegistry = [k \in {NodeClassKey} |-> NodeClass]
    /\ heap = <<>>
    /\ regLog = {[uri |-> NodeClassKey, cls |-> NodeClass]}
    /\ rpc = <<>>
    /\ arg = <<>>
    /\ newcls = <<>>
    /\ last = NoCall
    /\ calls = 0

\* A collection nobody uses.
MapIdle ==
    /\ index = <<>>
    /\ pairs = <<>>
    /\ mfault = FALSE
    /\ mlast = NoMapCall

\* An attribute map nobody uses.
AttrIdle ==
    /\ attrs = Bind(NewNodeTypeAttrMap, [s \in Slots |-> NilMapNode])
    /\ afault = FALSE
    /\ alast = NoAttrCall

\* A factory nobody calls.
BuildIdle ==
    /\ defs = <<>>
    /\ built = <<>>
    /\ stack = <<>>
    /\ bcall = NoBuild
    /\ blog = <<>>

\* A Skink whose loaders nobody uses.
LoadIdle ==
    /\ uriloaders = <<>>
    /\ registered = 0
    /\ loaded = NoLoad

\* The startup left aside.
StartupIdle == startup = NoStartup

\* The String class left aside.
StringIdle == strcall = NoStringCall

\* No tree to call GetPath on.
PathIdle == pnodes = <<>> /\ pathcall = NoPathCall

Init ==
    LifeInit /\ RegIdle /\ MapIdle /\ AttrIdle /\ BuildIdle /\ LoadIdle
        /\ StartupIdle /\ StringIdle /\ PathIdle

Next == LifeNext

Spec == Init /\ [][Next]_vars

InitReg ==
    RegInit /\ LifeIdle /\ MapIdle /\ AttrIdle /\ BuildIdle /\ LoadIdle
        /\ StartupIdle /\ StringIdle /\ PathIdle

NextReg == RegNext

SpecReg == InitReg /\ [][NextReg]_vars

InitMap ==
    MapInit /\ LifeIdle /\ RegIdle /\ AttrIdle /\ BuildIdle /\ LoadIdle
        /\ StartupIdle /\ StringIdle /\ PathIdle

NextMap == MapNext

SpecMap == InitMap /\ [][NextMap]_vars

InitAttr ==
    AttrInit /\ LifeIdle /\ RegIdle /\ MapIdle /\ BuildIdle /\ LoadIdle
        /\ StartupIdle /\ StringIdle /\ PathIdle

NextAttr == AttrNext

SpecAttr == InitAttr /\ [][NextAttr]_vars

InitBuild ==
    BuildInit /\ LifeIdle /\ RegIdle /\ MapIdle /\ AttrIdle /\ LoadIdle
        /\ StartupIdle /\ StringIdle /\ PathIdle

NextBuild == BuildNext

SpecBuild == InitBuild /\ [][NextBuild]_vars

InitLoad ==
    LoadInit /\ LifeIdle /\ RegIdle /\ MapIdle /\ AttrIdle /\ BuildIdle
        /\ StartupIdle /\ StringIdle /\ PathIdle

NextLoad == LoadNext

SpecLoad == InitLoad /\ [][NextLoad]_vars

\* The lifecycle with a scheduler that lets some goroutine that can take a
\* step take one, and with initializers and starters that return: a
\* goroutine that is not blocked in wg.Wait() runs on, and a call of
\* InitNoder.InitNode or StartNoder.StartNode that was made returns.
SpecLive == Init /\ [][Next]_vars /\ WF_vars(Next)

InitStart ==
    StartupInit /\ LifeIdle /\ MapIdle /\ AttrIdle /\ BuildIdle /\ LoadIdle
        /\ StringIdle /\ PathIdle

InitString ==
    StringInit /\ LifeIdle /\ MapIdle /\ AttrIdle /\ BuildIdle /\ LoadIdle
        /\ StartupIdle /\ PathIdle

NextString == StringNext

SpecString == InitString /\ [][NextString]_vars

InitPath ==
    PathInit /\ LifeIdle /\ RegIdle /\ MapIdle /\ AttrIdle /\ BuildIdle
        /\ LoadIdle /\ StartupIdle /\ StringIdle

NextPath == PathNext

SpecPath == InitPath /\ [][NextPath]_vars

NextStart == StartupNext

SpecStart == InitStart /\ [][NextStart]_vars

\* ------------------------------------------------------------------------
\* Properties of the lifecycle (checked under Spec)
\* ------------------------------------------------------------------------

\* The Init unit of c (the goroutine ForEach started for it) has completed.
UnitCompleted(c) == ipc[c] = "done"

\* The Init unit of c returned an error.
UnitFailed(c) == result[c] \notin {Pending, NilErr}

\* The starter of n returned an error.
StarterFailed(n) == sres[n] \notin {Pending, NilErr}

\* C1 as stated: a node's own initializer runs only after the Init unit of
\* every direct child has completed, and when InitNode(root) has returned,
\* the initializer of every node that has the capability was invoked exactly
\* once.
C1_EveryInitializerOnce ==
    /\ \A n \in Nodes :
         initCalls[n] > 0 => \A c \in ChildSet(n) : UnitCompleted(c)
    /\ initRet # Pending =>
         \A n \in Nodes : initNoder[n] => initCalls[n] = 1

\* C1 as amended: a node's own initializer runs only after the Init unit of
\* every direct child has completed; no initializer runs twice and none runs
\* on a node without the capability; and when InitNode(root) has returned,
\* the initializer of a node that has the capability was invoked exactly once
\* if the Init units of all its direct children returned nil, and not at all
\* if one of them returned an error.
C1_InitAfterChildren ==
    /\ \A n \in Nodes :
         initCalls[n] > 0 =>
             /\ initNoder[n]
             /\ initCalls[n] = 1
             /\ \A c \in ChildSet(n) : UnitCompleted(c)
    /\ initRet # Pending =>
         \A n \in Nodes :
             initCalls[n] =
                 IF initNoder[n] /\ \A c \in ChildSet(n) : ~UnitFailed(c)
                 THEN 1 ELSE 0

\* InitNode(root) returned nil on a root with two children, and the three
\* initializers ran.
C1_Witness ==
    /\ initRet = NilErr
    /\ Cardinality(ChildSet(Root)) = 2
    /\ \A n \in Nodes : initNoder[n] /\ initCalls[n] = 1

\* C2: when a fan-out level has returned, its collection holds exactly one
\* entry for every unit that returned an error and none for the others.
C2_NoErrorLost ==
    /\ \A n \in Nodes :
         agg[n] # Pending =>
             \A c \in ChildSet(n) :
                 Count(c, ce[n]) = (IF UnitFailed(c) THEN 1 ELSE 0)
    /\ startRet # Pending =>
         \A n \in Nodes :
             Count(n, sce) = (IF StarterFailed(n) THEN 1 ELSE 0)

\* C3: once the Init unit of a direct child of n has failed, n's own
\* initializer is never invoked and what InitNode(n) returns is the error
\* that wraps the children's collection, which is not empty and holds failed
\* children only; when all children returned nil and n has the capability,
\* what InitNode(n) returns is what its initializer returned.
C3_ChildFailureSkipsInitializer ==
    \A n \in Nodes :
        /\ (\E c \in ChildSet(n) : UnitFailed(c)) =>
               /\ initCalls[n] = 0
               /\ result[n] # Pending =>
                      /\ result[n] = Wrapped(n, CE(ce[n]))
                      /\ Len(ce[n]) >= 1
                      /\ \A i \in 1..Len(ce[n]) :
                             /\ ce[n][i] \in ChildSet(n)
                             /\ UnitFailed(ce[n][i])
        /\ ( /\ result[n] # Pending
             /\ initNoder[n]
             /\ \A c \in ChildSet(n) : ~UnitFailed(c) ) =>
               /\ initCalls[n] = 1
               /\ ires[n] # Pending
               /\ result[n] = ires[n]

\* InitNode returned the wrapped collection on a node that has the capability
\* and a child that failed.
C3_Witness ==
    \E n \in Nodes :
        /\ initNoder[n]
        /\ result[n] # Pending
        /\ result[n].kind = "wrapped"
        /\ \E c \in ChildSet(n) : UnitFailed(c)

\* C4: when the barrier of a fan-out level has returned, every unit of that
\* level was started and has completed, those beside a failed one included:
\* every child of the node for ForEach, every StartNoder for StartNode.
C4_CompleteAll ==
    /\ \A n \in Nodes :
         agg[n] # Pending =>
             \A c \in ChildSet(n) : UnitCompleted(c) /\ result[c] # Pending
    /\ startRet # Pending =>
         \A n \in Nodes :
             startNoder[n] => spc[n] = "done" /\ sres[n] # Pending

\* A barrier returned with one unit failed and a sibling unit completed
\* without error, in Init and in Start.
C4_Witness ==
    /\ \E c1, c2 \in ChildSet(Root) :
         /\ agg[Root] # Pending
         /\ UnitFailed(c1)
         /\ result[c2] = NilErr
    /\ startRet # Pending
    /\ \E n1, n2 \in Nodes : StarterFailed(n1) /\ sres[n2] = NilErr

\* C5: StartNode starts at most one goroutine for a node and none for a node
\* that is no StartNoder; each goroutine calls its node's StartNode with the
\* orchestrator context and the root of the tree; and when StartNode has
\* returned, exactly one goroutine was started for every StartNoder of the
\* tree and each has made its call and completed.
C5_OneUnitPerStarter ==
    /\ \A n \in Nodes :
         /\ dispatched[n] <= 1
         /\ startCalls[n] <= dispatched[n]
         /\ ~startNoder[n] => dispatched[n] = 0
         /\ startCalls[n] > 0 =>
                startArg[n] = [self |-> n, sk |-> "sk", root |-> 1]
    /\ startRet # Pending =>
         \A n \in Nodes :
             /\ dispatched[n] = (IF startNoder[n] THEN 1 ELSE 0)
             /\ startCalls[n] = dispatched[n]
             /\ startNoder[n] => spc[n] = "done"

\* StartNode returned on a tree of three nodes of which a node below the root
\* is a StartNoder and another node is not.
C5_Witness ==
    /\ startRet # Pending
    /\ Cardinality(Nodes) = 3
    /\ \E n \in Nodes : n # Root /\ startNoder[n] /\ startCalls[n] = 1
    /\ \E n \in Nodes : ~startNoder[n]

C7_NoEmptyAggregate ==
    /\ \A n \in Nodes :
         agg[n] # Pending =>
             /\ agg[n] = NilCE <=> \A c \in ChildSet(n) : ~UnitFailed(c)
             /\ agg[n] # NilCE =>
                    agg[n].kind = "ce" /\ Len(agg[n].errors) >= 1
    /\ startRet # Pending =>
         /\ startRet = NilErr <=> \A n \in Nodes : ~StarterFailed(n)
         /\ startRet # NilErr =>
                startRet.kind = "ce" /\ Len(startRet.errors) >= 1

\* Both kinds of level returned a collection of one entry: ForEach with
\* exactly one failed child, StartNode with exactly one failed starter.
C7_Witness ==
    /\ \E n \in Nodes :
         /\ agg[n] # Pending
         /\ agg[n] # NilCE
         /\ Len(agg[n].errors) = 1
         /\ Cardinality({c \in ChildSet(n) : UnitFailed(c)}) = 1
    /\ startRet \notin {Pending, NilErr}
    /\ Len(startRet.errors) = 1
    /\ Cardinality({n \in Nodes : StarterFailed(n)}) = 1

\* ------------------------------------------------------------------------
\* Properties of the class registry (checked under SpecReg)
\* ------------------------------------------------------------------------

\* The insertions made under a key equal to the string of uri ignoring
\* letter case.
MadeUnder(uri) == {e \in regLog : EqualFold(e.uri, URLString(uri))}

\* C8: between the existence check of a running CreateDynamicClass and its
\* insertion no other write takes effect on its key; no key has ever had two
\* class objects registered under it; and a CreateDynamicClass that returned
\* an error returned no class.
C8_CreateDynamicExclusive ==
    /\ \A p \in Callers :
         rpc[p] \in {"base", "register"} => MadeUnder(arg[p]) = {}
    /\ \A e1, e2 \in regLog : EqualFold(e1.uri, e2.uri) => e1 = e2
    /\ (last.op = "createDynamic" /\ last.rerr # NilErr) =>
           last.rcls = NilClass

\* C9: GetClassByURI(uri) fails with ClassNotFound exactly when no insertion
\* was ever made under a key equal to uri ignoring letter case, and returns
\* the class of that insertion otherwise: for every URI in every state, and
\* for the latest call that was made.
C9_ResolveIffRegistered ==
    /\ \A uri \in URIs :
         LET got == GetClassByURI(classRegistry, uri)
         IN  /\ got = [cls |-> NilClass, err |-> ClassNotFound(uri)]
                    <=> MadeUnder(uri) = {}
             /\ MadeUnder(uri) # {} =>
                    \E e \in MadeUnder(uri) :
                        /\ MadeUnder(uri) = {e}
                        /\ got = [cls |-> e.cls, err |-> NilErr]
    /\ last.op = "resolve" =>
         /\ last.rerr = ClassNotFound(last.uri) <=> MadeUnder(last.uri) = {}
         /\ last.rerr = NilErr <=>
                \E e \in MadeUnder(last.uri) : last.rcls = e.cls
         /\ last.rerr # NilErr => last.rcls = NilClass

\* A call resolved a URI to a class that was registered, after startup, under
\* the same URI in another letter case, while another URI is unresolved.
C9_Witness ==
    /\ last.op = "resolve"
    /\ last.rerr = NilErr
    /\ last.rcls # NodeClass
    /\ \E e \in regLog :
         e.cls = last.rcls /\ e.uri # URLString(last.uri)
    /\ \E uri \in URIs :
         GetClassByURI(classRegistry, uri).err = ClassNotFound(uri)

\* C10: a RegisterClass whose key exists already, in any letter case, returns
\* the duplicate error and leaves the registry as it was, so that the key
\* still resolves to the class registered first.
C10_DuplicateRegisterRejected ==
    [][ \A p \in Callers, uri \in URIs, cls \in UserClasses :
            (Register(p, uri, cls) /\ MadeUnder(uri) # {}) =>
                /\ last'.rerr.kind = "DuplicateClass"
                /\ classRegistry' = classRegistry
                /\ \A e \in MadeUnder(uri) :
                       GetClassByURI(classRegistry', uri) =
                           [cls |-> e.cls, err |-> NilErr] ]_vars

\* A RegisterClass was refused for a URI that differs in letter case from the
\* one first registered, with another class than the one first registered,
\* which the URI still resolves to.
C10_Witness ==
    /\ last.op = "register"
    /\ last.rerr.kind = "DuplicateClass"
    /\ \E e \in MadeUnder(last.uri) :
         /\ e.uri # URLString(last.uri)
         /\ e.cls # last.cls
         /\ GetClassByURI(classRegistry, last.uri).cls = e.cls

\* The URI GetBaseClassFromURI looks up for uri.
BaseURI(uri) == [uri EXCEPT !.fragment = NodeFragment]

\* C11: a CreateDynamicClass whose URI was unregistered when it was called
\* (it passed the existence test) returns no error and the class it returns
\* is the one its URI resolves to; the class is named by the URI's fragment,
\* its base is a class inserted under the URI with the fragment "Node", and
\* the root class when nothing was inserted there, and its allocator and
\* initializer are those of its base.
C11_CreateDynamicRegisters ==
    (last.op = "createDynamic" /\ last.rcls # NilClass) =>
        LET obj == ClassObject(last.rcls)
        IN  /\ last.rerr = NilErr
            /\ GetClassByURI(classRegistry, last.uri) =
                   [cls |-> last.rcls, err |-> NilErr]
            /\ obj.name = last.uri.fragment
            /\ \/ obj.base = NodeClass
               \/ \E e \in MadeUnder(BaseURI(last.uri)) : obj.base = e.cls
            /\ MadeUnder(BaseURI(last.uri)) = {} => obj.base = NodeClass
            /\ obj.allocator = ClassObject(obj.base).allocator
            /\ obj.initializer = ClassObject(obj.base).initializer

\* C12: a CreateDynamicClass called with a URI that is registered, in any
\* letter case, ends at its existence test: it returns the duplicate error and
\* no class, allocates nothing and leaves the registry as it was.
C12_SecondCreateDynamicFails ==
    [][ \A p \in Callers, uri \in URIs :
            (CreateDynamicCheck(p, uri) /\ MadeUnder(uri) # {}) =>
                /\ last'.op = "createDynamic"
                /\ last'.p = p
                /\ last'.rerr.kind = "DuplicateClass"
                /\ last'.rcls = NilClass
                /\ rpc'[p] = "idle"
                /\ classRegistry' = classRegistry
                /\ heap' = heap ]_vars

\* A CreateDynamicClass was refused for a URI under which an earlier
\* CreateDynamicClass had registered its class.
C12_Witness ==
    /\ last.op = "createDynamic"
    /\ last.rerr.kind = "DuplicateClass"
    /\ last.rcls = NilClass
    /\ \E e \in MadeUnder(last.uri) : e.cls.k = "dynamic"

\* C13: no step removes a key of the registry or changes the class under it,
\* and no step changes a class object that was allocated: what a resolve
\* returned once is what every later resolve of that key returns.
C13_RegistryMonotonic ==
    [][ /\ \A k \in DOMAIN classRegistry :
              k \in DOMAIN classRegistry' /\ classRegistry'[k] = classRegistry[k]
        /\ \A i \in 1..Len(heap) : i <= Len(heap') /\ heap'[i] = heap[i]
        /\ \A uri \in URIs :
              GetClassByURI(classRegistry, uri).err = NilErr =>
                  GetClassByURI(classRegistry', uri) =
                      GetClassByURI(classRegistry, uri) ]_vars

\* A resolve returned a class registered after startup, in a registry that
\* holds a later insertion under another key as well.
C13_Witness ==
    /\ last.op = "resolve"
    /\ last.rerr = NilErr
    /\ last.rcls # NodeClass
    /\ \E e \in regLog :
         /\ e.cls # NodeClass
         /\ ~EqualFold(e.uri, URLString(last.uri))

\* ------------------------------------------------------------------------
\* Properties of the node collection (checked under SpecMap)
\* ------------------------------------------------------------------------

\* The positions (from 1) of the entries whose node has a name equal to the
\* name ignoring letter case.
Holding(name) ==
    {q \in 1..Len(pairs) : EqualFold(pairs[q].node.name.value, name.value)}

\* The names a caller can ask for that equal the name ignoring letter case.
FoldsOf(name) == {a \in AskNames : EqualFold(a.value, name.value)}

\* The position (from 0) index i stands for in the collection as it is.
Effective(i) == IF i < 0 THEN Len(pairs) + i ELSE i

ValidIndex(i) == Effective(i) >= 0 /\ Effective(i) < Len(pairs)

\* The step is a call that adds or removes an entry of this key.
Targets(key) ==
    \/ \E node \in MapNodes, overwrite \in BOOLEAN :
           MapAddNode(node, overwrite) /\ node.name.lower = key
    \/ \E name \in AskNames : MapRemoveName(name) /\ name.lower = key
    \/ \E node \in MapNodes : MapRemove(node) /\ node.name.lower = key
    \/ \E i \in AskIndexes :
           /\ MapRemoveIndex(i)
           /\ ValidIndex(i)
           /\ pairs[Effective(i) + 1].name = key

\* C14: an AddNode(n, false) that returns no error leaves a collection in
\* which GetName of n's name in every letter case returns n; and a step that
\* is no add or remove under n's name keeps GetName returning n.
C14_AddThenGetName ==
    [][ /\ \A node \in MapNodes :
              ( /\ MapAddNode(node, FALSE)
                /\ ~mfault'
                /\ AddNode(TheMap, node, FALSE).err = NilErr ) =>
                  \A a \in FoldsOf(node.name) :
                      GetName(TheMap', a) =
                          MapResult(TheMap', node, NilErr, FALSE)
        /\ \A node \in MapNodes : \A a \in FoldsOf(node.name) :
              ( /\ GetName(TheMap, a).node = node
                /\ ~mfault'
                /\ ~Targets(node.name.lower) ) =>
                  GetName(TheMap', a) = MapResult(TheMap', node, NilErr, FALSE)
      ]_vars

\* GetName returned a node asked for in another letter case than its own
\* name's, from a collection that holds another entry behind it.
C14_Witness ==
    /\ mlast.op = "GetName"
    /\ mlast.rerr = NilErr
    /\ mlast.rnode.name.value # mlast.name.value
    /\ Len(pairs) >= 2
    /\ pairs[1].node = mlast.rnode

\* C15: AddNode(node, false) on a collection that holds an entry of the same
\* name ignoring letter case returns the duplicate-name error and leaves
\* pairs and index as they were.
C15_DuplicateAddRejected ==
    [][ \A node \in MapNodes :
            (MapAddNode(node, FALSE) /\ Holding(node.name) # {}) =>
                /\ ~mfault'
                /\ mlast'.op = "AddNode"
                /\ mlast'.node = node
                /\ mlast'.rerr = DuplicateName(node.name)
                /\ pairs' = pairs
                /\ index' = index ]_vars

\* An AddNode without overwrite was refused for an instance whose name
\* differs in letter case from the name of the instance that is stored.
C15_Witness ==
    /\ mlast.op = "AddNode"
    /\ ~mlast.overwrite
    /\ mlast.rerr.kind = "DuplicateName"
    /\ \E q \in Holding(mlast.node.name) :
         /\ pairs[q].node # mlast.node
         /\ pairs[q].node.name.value # mlast.node.name.value

\* C16: AddNode(node, true) returns no error; when an entry of the name is
\* there, the length, the index and every other entry stay and GetIndex of
\* that entry's position returns the node; when none is there, the entries
\* stay and the node is at position length.
C16_OverwriteInPlace ==
    [][ \A node \in MapNodes :
            MapAddNode(node, TRUE) =>
                /\ ~mfault'
                /\ mlast'.rerr = NilErr
                /\ \A q \in Holding(node.name) :
                       /\ Len(pairs') = Len(pairs)
                       /\ index' = index
                       /\ \A o \in 1..Len(pairs) :
                              o # q => pairs'[o] = pairs[o]
                       /\ GetIndex(TheMap', q - 1) =
                              MapResult(TheMap', node, NilErr, FALSE)
                /\ Holding(node.name) = {} =>
                       /\ Len(pairs') = Len(pairs) + 1
                       /\ \A o \in 1..Len(pairs) : pairs'[o] = pairs[o]
                       /\ GetIndex(TheMap', Len(pairs)) =
                              MapResult(TheMap', node, NilErr, FALSE)
                       /\ GetName(TheMap', node.name) =
                              MapResult(TheMap', node, NilErr, FALSE) ]_vars

\* The latest call was an AddNode with overwrite of the instance that is now
\* at position 0 of a collection of two entries or more: it replaced the
\* entry where it was.
C16_Witness ==
    /\ mlast.op = "AddNode"
    /\ mlast.overwrite
    /\ mlast.rerr = NilErr
    /\ Len(pairs) >= 2
    /\ pairs[1].node = mlast.node

\* C17: GetIndex and RemoveIndex with an index whose effective index is not
\* in 0..length-1 return IndexError, without a panic, and leave the
\* collection as it was.
C17_IndexRule ==
    [][ \A i \in AskIndexes :
            ((MapGetIndex(i) \/ MapRemoveIndex(i)) /\ ~ValidIndex(i)) =>
                /\ ~mfault'
                /\ mlast'.i = i
                /\ mlast'.rerr.kind = "IndexError"
                /\ pairs' = pairs
                /\ index' = index ]_vars

\* C18: for a collection of length N >= 1 and every i with -N <= i < 0,
\* GetIndex(i) returns what GetIndex(N + i) returns, the node at position
\* N + i; and that is what a call made with such an index returned.
C18_NegativeIndex ==
    /\ \A i \in AskIndexes :
         (i < 0 /\ 0 - Len(pairs) <= i) =>
             /\ GetIndex(TheMap, i) = GetIndex(TheMap, Len(pairs) + i)
             /\ GetIndex(TheMap, i) =
                    MapResult(TheMap, pairs[Len(pairs) + i + 1].node,
                              NilErr, FALSE)
    /\ ( /\ mlast.op = "GetIndex"
         /\ mlast.i < 0
         /\ 0 - Len(pairs) <= mlast.i ) =>
             /\ mlast.rerr = NilErr
             /\ mlast.rnode = pairs[Len(pairs) + mlast.i + 1].node

\* GetIndex(-1) returned the last node of a collection of two or more.
C18_Witness ==
    /\ mlast.op = "GetIndex"
    /\ mlast.i = 0 - 1
    /\ Len(pairs) >= 2
    /\ mlast.rerr = NilErr
    /\ mlast.rnode = pairs[Len(pairs)].node

\* C19: RemoveIndex(i) with a valid i returns no error and makes the
\* collection one shorter; GetIndex of a position before i's returns what it
\* returned, GetIndex of a position j from i's on returns what GetIndex(j+1)
\* returned; GetName of every other entry's name returns that entry's node
\* and GetName of the removed entry's name returns NodeNotFound.
C19_RemoveIndexShifts ==
    [][ \A i \in AskIndexes :
            (MapRemoveIndex(i) /\ ValidIndex(i)) =>
                LET at == Effective(i)
                IN  /\ ~mfault'
                    /\ mlast'.rerr = NilErr
                    /\ Len(pairs') = Len(pairs) - 1
                    /\ \A j \in 0..(Len(pairs) - 2) :
                           GetIndex(TheMap', j) =
                               MapResult(TheMap',
                                         pairs[IF j < at THEN j + 1
                                                         ELSE j + 2].node,
                                         NilErr, FALSE)
                    /\ \A q \in 1..Len(pairs) :
                           LET name == pairs[q].node.name
                           IN  IF q = at + 1
                               THEN GetName(TheMap', name) =
                                        MapResult(TheMap', NilMapNode,
                                                  NodeNotFound(name), FALSE)
                               ELSE GetName(TheMap', name) =
                                        MapResult(TheMap', pairs[q].node,
                                                  NilErr, FALSE) ]_vars

\* RemoveIndex(0) returned no error and left two entries or more: the entries
\* behind the removed one moved up.
C19_Witness ==
    /\ mlast.op = "RemoveIndex"
    /\ mlast.i = 0
    /\ mlast.rerr = NilErr
    /\ Len(pairs) >= 2

\* C20: the keys of index are the lower-cased names of the entries, index
\* maps them one to one onto 0..length-1, index[name] = p exactly for the
\* entry at position p, and no two entries have names equal ignoring case.
C20_IndexBijection ==
    /\ DOMAIN index = {pairs[q].name : q \in 1..Len(pairs)}
    /\ Cardinality(DOMAIN index) = Len(pairs)
    /\ {index[k] : k \in DOMAIN index} = 0..(Len(pairs) - 1)
    /\ \A q \in 1..Len(pairs) :
         /\ pairs[q].name = ToLower(pairs[q].node.name.value)
         /\ index[pairs[q].name] = q - 1
         /\ Holding(pairs[q].node.name) = {q}

\* An entry was removed by name from before two others, which are indexed at
\* positions 0 and 1.
C20_Witness ==
    /\ mlast.op \in {"RemoveName", "Remove"}
    /\ mlast.rerr = NilErr
    /\ Len(pairs) = 2
    /\ index[pairs[1].name] = 0
    /\ index[pairs[2].name] = 1

\* The positions (from 1) of the entries stored under the node's name.
StoredUnderNameOf(node) ==
    {q \in 1..Len(pairs) : pairs[q].name = ToLower(node.name.value)}

\* C21: Remove(node) removes the entry exactly when the node stored under
\* node's name is the argument itself; with another instance stored it
\* returns the different-node error, with no entry of that name it returns
\* NodeNotFound, and in both cases pairs and index stay as they were;
\* Contains(node) is true exactly in the first case.
C21_RemoveByIdentity ==
    /\ [](\A node \in MapNodes :
             Contains(TheMap, node) <=>
                 \E q \in StoredUnderNameOf(node) : pairs[q].node = node)
    /\ [][ \A node \in MapNodes :
              MapRemove(node) =>
                  LET at == StoredUnderNameOf(node)
                  IN  /\ ~mfault'
                      /\ IF at = {}
                         THEN /\ mlast'.rerr = NodeNotFound(node.name)
                              /\ UNCHANGED <<index, pairs>>
                         ELSE IF \A q \in at : pairs[q].node # node
                         THEN /\ mlast'.rerr = DifferentNode(node.name)
                              /\ UNCHANGED <<index, pairs>>
                         ELSE /\ mlast'.rerr = NilErr
                              /\ Contains(TheMap, node)
                              /\ ~Contains(TheMap', node)
                              /\ Len(pairs') = Len(pairs) - 1
                              /\ {pairs'[q].node : q \in 1..Len(pairs')} =
                                     {pairs[q].node : q \in 1..Len(pairs)}
                                         \ {node} ]_vars

\* Remove of an instance returned the different-node error while another
\* instance of the same name ignoring letter case is stored, among others.
C21_Witness ==
    /\ mlast.op = "Remove"
    /\ mlast.rerr = DifferentNode(mlast.node.name)
    /\ ~Contains(TheMap, mlast.node)
    /\ \E q \in StoredUnderNameOf(mlast.node) : pairs[q].node # mlast.node
    /\ Len(pairs) >= 2

\* ------------------------------------------------------------------------
\* Properties of the attribute map (checked under SpecAttr)
\* ------------------------------------------------------------------------

\* The positions (from 1) of the TypeAttrs whose name equals the name
\* ignoring letter case.
TypeAttrsNamed(name) ==
    {q \in 1..Len(attrs.NodeTypeAttrMap.pairs) :
        EqualFold(attrs.NodeTypeAttrMap.pairs[q].Name.value, name.value)}

\* The number of TypeAttrs and the number of dynamic entries.
TypeCount == Len(attrs.NodeTypeAttrMap.pairs)

DynamicCount == Len(attrs.dynamic.pairs)

\* The position (from 0) index i stands for in the attribute map as it is.
AttrEffective(i) == IF i < 0 THEN TypeCount + DynamicCount + i ELSE i

\* C22: GetName of a name that equals a TypeAttr's name ignoring letter case
\* returns what that TypeAttr's Getter returns for the bound node, and the
\* Getter is the one call it makes, none of the dynamic collection, whatever
\* the dynamic collection holds; GetName of any other name returns what
\* GetName of the dynamic collection returns.
C22_GetNameTypeAttrFirst ==
    [][ \A name \in AskNames :
            AttrGetName(name) =>
                /\ ~afault'
                /\ attrs' = attrs
                /\ IF TypeAttrsNamed(name) # {}
                   THEN \E q \in TypeAttrsNamed(name) :
                          LET g == Getter(attrs.NodeTypeAttrMap.pairs[q],
                                          attrs.Node)
                          IN  /\ alast'.rnode = g.node
                              /\ alast'.rerr = g.err
                              /\ alast'.made = <<GetterCall(q - 1)>>
                   ELSE LET d == GetName(attrs.dynamic, name)
                        IN  /\ alast'.rnode = d.node
                            /\ alast'.rerr = d.err
                            /\ alast'.made = <<DynamicCall("GetName")>>
      ]_vars

\* GetName of a TypeAttr's name in another letter case returned the node of
\* the bound node's field while the dynamic collection holds entries.
C22_Witness ==
    /\ alast.op = "GetName"
    /\ alast.rerr = NilErr
    /\ alast.rnode # NilMapNode
    /\ alast.made = <<GetterCall(0)>>
    /\ attrs.NodeTypeAttrMap.pairs[1].Name.value # alast.name.value
    /\ DynamicCount >= 1

\* What position i (from 0) of the attribute map stands for: the Getter's
\* result of the TypeAttr at i below the number of TypeAttrs, the node of the
\* dynamic entry at i less that number from there on.
PositionHolds(am, i) ==
    LET n == Len(am.NodeTypeAttrMap.pairs)
    IN  IF i < n
        THEN Getter(am.NodeTypeAttrMap.pairs[i + 1], am.Node)
        ELSE [node |-> am.dynamic.pairs[i - n + 1].node, err |-> NilErr]

\* The step removes an entry.
RemovesEntry ==
    \/ \E i \in AttrIndexes : AttrRemoveIndex(i)
    \/ \E name \in AskNames : AttrRemoveName(name)
    \/ \E node \in MapNodes : AttrRemove(node)

\* C23: GetIndex(i) for 0 <= i < length returns the result of the i-th
\* TypeAttr's Getter (in the order the TypeAttrs were defined) for i below
\* the number of TypeAttrs, and the dynamic entry at i less that number from
\* there on; Nodes lists the same in the same order; a node added under a new
\* dynamic name comes last, and a step that removes nothing leaves every
\* dynamic entry at its position.
C23_TypeAttrsThenDynamic ==
    /\ [](\A i \in 0..(TypeCount + DynamicCount - 1) :
             LET r == NodeAttrMapGetIndex(attrs, i)
             IN  /\ ~r.fault
                 /\ r.node = PositionHolds(attrs, i).node
                 /\ r.err = PositionHolds(attrs, i).err
                 /\ r.am = attrs)
    /\ [](LET all == NodeAttrMapNodes(attrs)
          IN  ~all.fault =>
                  /\ Len(all.nodes) = TypeCount + DynamicCount
                  /\ \A i \in 0..(TypeCount + DynamicCount - 1) :
                         all.nodes[i + 1] = PositionHolds(attrs, i).node)
    /\ [][ /\ \A node \in MapNodes, overwrite \in BOOLEAN :
                 ( /\ AttrAddNode(node, overwrite)
                   /\ TypeAttrsNamed(node.name) = {}
                   /\ GetName(attrs.dynamic, node.name).err # NilErr ) =>
                     /\ ~afault'
                     /\ attrs'.dynamic.pairs =
                            Append(attrs.dynamic.pairs,
                                   [name |-> node.name.lower, node |-> node])
                     /\ NodeAttrMapGetIndex(attrs', TypeCount + DynamicCount)
                            .node = node
           /\ ~RemovesEntry =>
                 \A q \in 1..DynamicCount :
                     /\ Len(attrs'.dynamic.pairs) >= q
                     /\ attrs'.dynamic.pairs[q].name =
                            attrs.dynamic.pairs[q].name
           /\ attrs'.NodeTypeAttrMap = attrs.NodeTypeAttrMap ]_vars

\* GetIndex of the position behind two TypeAttrs and one dynamic entry
\* returned the node added second.
C23_Witness ==
    /\ alast.op = "GetIndex"
    /\ TypeCount = 2
    /\ DynamicCount >= 2
    /\ alast.i = TypeCount + 1
    /\ alast.rerr = NilErr
    /\ alast.rnode = attrs.dynamic.pairs[2].node
    /\ alast.made = <<DynamicCall("GetIndex")>>

\* The sequence without its entry at position q (from 1).
WithoutAt(seq, q) == SubSeq(seq, 1, q - 1) \o SubSeq(seq, q + 1, Len(seq))

\* C24: RemoveName of a TypeAttr's name, RemoveIndex of a position below the
\* number of TypeAttrs and Remove of a node with a TypeAttr's name return an
\* error and leave the TypeAttrs, the bound node and the dynamic collection
\* as they were; RemoveIndex(i) of a position from the number of TypeAttrs on
\* removes the dynamic entry at that position less the number of TypeAttrs
\* and nothing else.
C24_TypeAttrsPermanent ==
    [][ /\ \A name \in AskNames :
              (AttrRemoveName(name) /\ TypeAttrsNamed(name) # {}) =>
                  /\ ~afault'
                  /\ alast'.rerr # NilErr
                  /\ attrs' = attrs
        /\ \A node \in MapNodes :
              (AttrRemove(node) /\ TypeAttrsNamed(node.name) # {}) =>
                  /\ ~afault'
                  /\ alast'.rerr # NilErr
                  /\ attrs' = attrs
        /\ \A i \in AttrIndexes :
              ( /\ AttrRemoveIndex(i)
                /\ AttrEffective(i) >= 0
                /\ AttrEffective(i) < TypeCount ) =>
                  /\ ~afault'
                  /\ alast'.rerr # NilErr
                  /\ attrs' = attrs
        /\ \A i \in AttrIndexes :
              ( /\ AttrRemoveIndex(i)
                /\ AttrEffective(i) >= TypeCount
                /\ AttrEffective(i) < TypeCount + DynamicCount ) =>
                  /\ ~afault'
                  /\ alast'.rerr = NilErr
                  /\ attrs'.NodeTypeAttrMap = attrs.NodeTypeAttrMap
                  /\ attrs'.Node = attrs.Node
                  /\ attrs'.dynamic.pairs =
                         WithoutAt(attrs.dynamic.pairs,
                                   AttrEffective(i) - TypeCount + 1)
                  /\ \A j \in 0..(TypeCount + DynamicCount - 2) :
                         PositionHolds(attrs', j) =
                             PositionHolds(attrs,
                                           IF j < AttrEffective(i)
                                           THEN j ELSE j + 1)
      ]_vars

\* RemoveIndex of position 0 failed on an attribute map with a TypeAttr and
\* two dynamic entries, and left them there.
C24_Witness ==
    /\ alast.op = "RemoveIndex"
    /\ alast.i = 0
    /\ alast.rerr = TypeAttrPermanent
    /\ TypeCount >= 1
    /\ DynamicCount >= 2

\* C25: AddNode of a node whose name equals a TypeAttr's name ignoring
\* letter case calls that TypeAttr's Setter with the bound node and the
\* node, returns its error, and inserts nothing into the dynamic collection,
\* with overwrite true and with overwrite false; Len is the number of
\* TypeAttrs plus the length of the dynamic collection, the length of Nodes,
\* and such an AddNode leaves it as it was.
C25_AddNodeCallsSetter ==
    /\ [](/\ NodeAttrMapLen(attrs) = TypeCount + DynamicCount
          /\ ~NodeAttrMapNodes(attrs).fault =>
                 Len(NodeAttrMapNodes(attrs).nodes) = NodeAttrMapLen(attrs))
    /\ [][ \A node \in MapNodes, overwrite \in BOOLEAN :
               (AttrAddNode(node, overwrite)
                    /\ TypeAttrsNamed(node.name) # {}) =>
                   \E q \in TypeAttrsNamed(node.name) :
                       LET s == Setter(attrs.NodeTypeAttrMap.pairs[q],
                                       attrs.Node, node)
                       IN  /\ ~afault'
                           /\ alast'.made = <<SetterCall(q - 1)>>
                           /\ alast'.rerr = s.err
                           /\ attrs'.Node = s.self
                           /\ attrs'.dynamic = attrs.dynamic
                           /\ attrs'.NodeTypeAttrMap = attrs.NodeTypeAttrMap
                           /\ NodeAttrMapLen(attrs') = NodeAttrMapLen(attrs)
         ]_vars

\* AddNode with overwrite false of a node with a TypeAttr's name in another
\* letter case set the bound node's field, beside a dynamic entry.
C25_Witness ==
    /\ alast.op = "AddNode"
    /\ ~alast.overwrite
    /\ alast.rerr = NilErr
    /\ alast.made = <<SetterCall(0)>>
    /\ attrs.NodeTypeAttrMap.pairs[1].Name.value # alast.node.name.value
    /\ attrs.Node[attrs.NodeTypeAttrMap.pairs[1].slot] = alast.node
    /\ DynamicCount >= 1

\* ------------------------------------------------------------------------
\* Properties of the factory (checked under SpecBuild)
\* ------------------------------------------------------------------------

\* CreateNode returned to its caller, with a node or with an error.
BuildSucceeded == bcall.state = "returned" /\ bcall.err = NilErr

BuildFailed == bcall.state = "returned" /\ bcall.err # NilErr

\* The entries of the child collection of node n, in order.
ChildPairs(n) == built[n].NodeChildren.pairs

\* Node n and all below it are what definition d and all below it say: the
\* name, the children in the definition's order under the definitions'
\* names, each child's parent reference.
RECURSIVE Mirrors(_, _)
Mirrors(n, d) ==
    /\ built[n].NodeName = defs[d].Name
    /\ ~built[n].nilChildren
    /\ Len(ChildPairs(n)) = Len(defs[d].Children)
    /\ \A k \in 1..Len(defs[d].Children) :
         LET c == ChildPairs(n)[k].node.id
             cd == defs[d].Children[k]
         IN  /\ ChildPairs(n)[k].node.name = defs[cd].Name
             /\ ChildPairs(n)[k].name = ToLower(defs[cd].Name.value)
             /\ GetIndex(built[n].NodeChildren, k - 1).node =
                    ChildPairs(n)[k].node
             /\ built[c].NodeParent = n
             /\ Mirrors(c, cd)

\* Node n and the nodes below it.
RECURSIVE TreeBelow(_)
TreeBelow(n) ==
    {n} \cup UNION {TreeBelow(ChildPairs(n)[k].node.id) :
                       k \in 1..Len(ChildPairs(n))}

\* The places a node has in child collections: the holder and the position.
PlacesOf(n) ==
    {<<m, q>> \in (1..Len(built)) \X (1..MaxDefs) :
        /\ q <= Len(ChildPairs(m))
        /\ ChildPairs(m)[q].node.id = n}

\* C26: when CreateNode(parent, def) has returned a node, the tree under it
\* is the definition tree: every node has its definition's name and its
\* children in the definition's order under the definitions' names, every
\* child's parent reference is the node that holds it, the root's parent
\* reference is the parent given, there are as many nodes as definitions,
\* and every node below the root is held by exactly one child collection (the
\* root, which CreateNode hands to its caller unattached, by none).
C26_TreeMirrorsDefinitions ==
    BuildSucceeded =>
        /\ Mirrors(bcall.node, 1)
        /\ built[bcall.node].NodeParent = bcall.parent
        /\ Cardinality(TreeBelow(bcall.node)) = Len(defs)
        /\ \A n \in TreeBelow(bcall.node) \ {bcall.node} :
               /\ Cardinality(PlacesOf(n)) = 1
               /\ \A pl \in PlacesOf(n) : pl[1] = built[n].NodeParent
        /\ PlacesOf(bcall.node) = {}

\* CreateNode returned the root of three nodes, two of them children of the
\* root, built under a parent of the caller's.
C26_Witness ==
    /\ BuildSucceeded
    /\ bcall.parent = OuterNode
    /\ Len(defs) = MaxDefs
    /\ Len(defs[1].Children) = 2
    /\ Len(ChildPairs(bcall.node)) = 2

\* The definitions from d down in the order CreateNode meets them: d, then
\* its children's in turn.
RECURSIVE Preorder(_)
RECURSIVE PreorderAll(_)
Preorder(d) == <<d>> \o PreorderAll(defs[d].Children)

PreorderAll(ds) ==
    IF ds = <<>> THEN <<>> ELSE Preorder(Head(ds)) \o PreorderAll(Tail(ds))

\* Two definitions with one parent whose names are equal ignoring case.
SiblingsCollide ==
    \E c, e \in 1..Len(defs) :
        /\ c # e
        /\ defs[c].Parent = defs[e].Parent
        /\ EqualFold(defs[c].Name.value, defs[e].Name.value)

\* C27: CreateNode returns either a node and no error or an error and no
\* node; a class that cannot be made, an Alloc or an Init that returns an
\* error and a child whose name a sibling has ignoring case each make the
\* whole call return an error at that step; CreateNode is called for the
\* definitions in their order and for none after the failure, and after the
\* return nothing more is built.
C27_FailFast ==
    /\ [](/\ bcall.state = "returned" =>
                 /\ stack = <<>>
                 /\ (bcall.err # NilErr) = (bcall.node = NilNode)
          /\ bcall.state = "idle" => blog = <<>>
          /\ bcall.state # "idle" =>
                 /\ Len(blog) <= Len(defs)
                 /\ blog = SubSeq(Preorder(1), 1, Len(blog))
          /\ BuildSucceeded => (blog = Preorder(1) /\ ~SiblingsCollide))
    /\ [][ /\ ( /\ CreateNodeInstantiate
                /\ \/ ClassObject(Top.cls).allocator = "allocFails"
                   \/ ClassObject(Top.cls).initializer = "initFails" ) =>
                  (BuildFailed' /\ bcall'.node = NilNode /\ blog' = blog)
           /\ ( /\ CreateNodeReturn
                /\ Len(stack) > 1
                /\ \E q \in 1..Len(ChildPairs(stack[Len(stack) - 1].node)) :
                       EqualFold(
                           ChildPairs(stack[Len(stack) - 1].node)[q]
                               .node.name.value,
                           built[Top.node].NodeName.value) ) =>
                  ( /\ BuildFailed'
                    /\ bcall'.node = NilNode
                    /\ built' = built )
           /\ ( /\ CreateNodeDynamicRegister
                /\ GetClassByURI(classRegistry, defs[Top.def].ClassURI).err
                       = NilErr ) =>
                  (BuildFailed' /\ bcall'.node = NilNode)
           /\ bcall.state = "returned" =>
                  UNCHANGED <<bcall, blog, built, stack>> ]_vars

\* CreateNode returned the error of an Alloc or Init that failed for the
\* root's first child and was never called for the root's second child.
C27_Witness ==
    /\ BuildFailed
    /\ bcall.err.what \in {"alloc", "init"}
    /\ Len(defs[1].Children) = 2
    /\ blog = <<1, 2>>

\* The nodes from n down with the definitions from d down they were built
\* for, as pairs.
RECURSIVE BuiltFor(_, _)
BuiltFor(n, d) ==
    {<<n, d>>} \cup
        UNION {BuiltFor(ChildPairs(n)[k].node.id, defs[d].Children[k]) :
                  k \in 1..Len(ChildPairs(n))}

\* The class is one CreateDynamicClass made for the URI on the registry as
\* it is: named by the fragment, based on the class under the URI with the
\* fragment "Node" or on NodeClass, with the base's Alloc and Init.
DynamicFor(cls, uri) ==
    /\ cls.k = "dynamic"
    /\ ClassObject(cls).name = uri.fragment
    /\ ClassObject(cls).base = GetBaseClassFromURI(classRegistry, uri)
    /\ ClassObject(cls).allocator =
           ClassObject(ClassObject(cls).base).allocator
    /\ ClassObject(cls).initializer =
           ClassObject(ClassObject(cls).base).initializer

\* C28: a CreateNode that finds no class under its definition's ClassURI
\* makes a dynamic class for it and registers it, so it never returns for
\* want of a class, and allocates the node as the base's Alloc does; when
\* CreateNode has returned a node, the ClassURI of every definition
\* resolves, every node's class is the class registered under its
\* definition's ClassURI, and definitions with one unregistered ClassURI
\* have one class.
C28_DynamicClassOnDemand ==
    /\ BuildFailed => bcall.err.what # "class"
    /\ \A j \in 1..Len(stack) :
         (stack[j].dynamic /\ stack[j].pc \in {"alloc", "children", "attach"})
             => LET uri == defs[stack[j].def].ClassURI
                IN  /\ GetClassByURI(classRegistry, uri).cls = stack[j].cls
                    /\ DynamicFor(stack[j].cls, uri)
                    /\ stack[j].node # NilNode =>
                           built[stack[j].node].type =
                               Alloc(ClassObject(ClassObject(stack[j].cls)
                                                     .base),
                                     defs[stack[j].def]).node.type
    /\ BuildSucceeded =>
         /\ \A d \in 1..Len(defs) :
                GetClassByURI(classRegistry, defs[d].ClassURI).err = NilErr
         /\ \A nd \in BuiltFor(bcall.node, 1) :
                built[nd[1]].NodeClass =
                    GetClassByURI(classRegistry, defs[nd[2]].ClassURI).cls
         /\ \A nd, me \in BuiltFor(bcall.node, 1) :
                EqualFold(URLString(defs[nd[2]].ClassURI),
                          URLString(defs[me[2]].ClassURI)) =>
                    built[nd[1]].NodeClass = built[me[1]].NodeClass

\* C29: no step of CreateNode, whether it goes on, returns a node or
\* returns an error, changes a definition: Name, ClassURI, Parent, Value
\* and Children of every NodeDef stay what they were.
C29_DefinitionsUntouched ==
    [][ /\ Len(defs') = Len(defs)
        /\ \A d \in 1..Len(defs) :
              /\ defs'[d].Name = defs[d].Name
              /\ defs'[d].ClassURI = defs[d].ClassURI
              /\ defs'[d].Parent = defs[d].Parent
              /\ defs'[d].Value = defs[d].Value
              /\ defs'[d].Children = defs[d].Children ]_vars

\* CreateNode returned an error after it had made a node for each of three
\* definitions, which are a tree still.
C29_Witness ==
    /\ BuildFailed
    /\ bcall.err.what = "attach"
    /\ Len(built) = MaxDefs
    /\ Len(defs) = MaxDefs
    /\ defs \in DefTrees

\* ------------------------------------------------------------------------
\* Properties of loading
\* ------------------------------------------------------------------------

\* The positions of the loaders of a slice whose filter is nil or accepts
\* the URI.
Unfiltered(schemes, uri) ==
    { q \in 1..Len(schemes) :
        schemes[q].filter = "nil" \/ FilterAccepts(schemes[q].filter, uri) }

\* The unfiltered positions whose loader function can load now.
Succeeding(schemes, uri, works) ==
    { q \in Unfiltered(schemes, uri) : schemes[q].loader \in works }

\* The positions a CreateNodeDef call invoked the loaders of.
InvokedSet(call) == { call.invoked[a] : a \in 1..Len(call.invoked) }

\* C30: a CreateNodeDef call for a URI invokes loaders registered for the
\* URI's scheme only, the most recently registered first; a loader whose
\* filter is there and refuses the URI is not invoked; when some unfiltered
\* loader can load, the call returns the definition of the most recently
\* registered one of them with no error, having invoked no loader registered
\* before it; the call returns an error and no definition when the scheme
\* has no loaders, when every loader is filtered out, and when every invoked
\* loader fails, the error then chaining the failure of each of them.
C30_LoaderDispatch ==
    [][\A uri \in LoadURIs, works \in SUBSET LoaderFuncs :
          LoadCreateNodeDef(uri, works) =>
              IF uri.scheme \notin DOMAIN uriloaders
              THEN /\ loaded'.err # NilErr
                   /\ loaded'.nodedef = NilNodeDef(uri)
                   /\ loaded'.invoked = <<>>
              ELSE LET schemes == uriloaders[uri.scheme]
                       can == Unfiltered(schemes, uri)
                       ok == Succeeding(schemes, uri, works)
                       inv == loaded'.invoked
                   IN  /\ \A a, b \in 1..Len(inv) : a < b => inv[a] > inv[b]
                       /\ InvokedSet(loaded') \subseteq can
                       /\ IF ok # {}
                          THEN LET win == CHOOSE q \in ok :
                                              \A r \in ok : r <= q
                               IN  /\ loaded'.err = NilErr
                                   /\ loaded'.nodedef =
                                          [loadedBy |-> schemes[win].loader,
                                           uri |-> uri]
                                   /\ InvokedSet(loaded') =
                                          { q \in can : q >= win }
                          ELSE /\ loaded'.err # NilErr
                               /\ loaded'.nodedef = NilNodeDef(uri)
                               /\ InvokedSet(loaded') = can
                               /\ can # {} =>
                                    /\ loaded'.err.kind = "LoadChain"
                                    /\ Len(loaded'.err.chain) =
                                           Cardinality(can)
                                    /\ \A a \in 1..Len(inv) :
                                         loaded'.err.chain[Len(inv) + 1 - a]
                                           = LoaderFailed(schemes[inv[a]].loader)
      ]_vars

\* A call for a URI whose scheme has three loaders, all unfiltered: the
\* newest failed, the one before it loaded, and the oldest was not invoked.
C30_Witness ==
    /\ loaded.op = "CreateNodeDef"
    /\ loaded.err = NilErr
    /\ loaded.invoked = <<3, 2>>
    /\ loaded.uri.scheme \in DOMAIN uriloaders
    /\ 1 \in Unfiltered(uriloaders[loaded.uri.scheme], loaded.uri)
    /\ loaded.nodedef.loadedBy \in CallerLoaders

\* ------------------------------------------------------------------------
\* Properties of the startup
\* ------------------------------------------------------------------------

\* C31: when the startup of the process is over (the package-level
\* variables initialised, StringClass through MustRegisterClassString, and
\* the init functions run), it has ended without a panic, GetClassByURI
\* gives the root Node class for "import:nodes#node" and the String class
\* for "import:nodes#String", and every registration made during the
\* startup is in the registry still.
C31_StartupRegistersBuiltins ==
    StartupEnded =>
        /\ startup.panic = "none"
        /\ GetClassByURI(classRegistry, NodeClassURI).cls = NodeClass
        /\ GetClassByURI(classRegistry, StringClassURI).cls = StringClass
        /\ \A e \in regLog :
             /\ ToLower(e.uri) \in DOMAIN classRegistry
             /\ classRegistry[ToLower(e.uri)] = e.cls

\* ------------------------------------------------------------------------
\* Properties of the lifecycle: termination and nodes without children
\* ------------------------------------------------------------------------

\* The units of the barrier of n's ForEach that have not returned: the
\* children a goroutine was started for that has not called wg.Done().
UnitsOut(n) ==
    { c \in ChildSet(n) : ipc[c] \notin {"none", "done"} }

\* The units of StartNode's barrier that have not returned.
StartersOut == { n \in Nodes : spc[n] \in {"spawned", "adding"} }

\* C32: on a tree, when every initializer and every starter that is called
\* returns, InitNode returns and StartNode returns; the counter of every
\* WaitGroup is the number of its units that have not returned, so that a
\* barrier is blocked only while one of its own units is out.
C32_BarriersReleased ==
    (Root # NilNode) =>
        /\ <>(initRet # Pending /\ startRet # Pending)
        /\ [](/\ \A n \in Nodes : wg[n] = Cardinality(UnitsOut(n))
              /\ swg = Cardinality(StartersOut))

\* C33: on a tree with a node whose Children() is nil no call faults, a
\* started StartNode reaches every StartNoder of the tree once, and an
\* InitNode that returned nil has called every InitNoder of the tree once.
C33_LeafNodesAsChildless ==
    (\E n \in Nodes : kind[n] = "leaf") =>
        /\ ~fault
        /\ mainpc = "done" =>
              \A n \in Nodes : IsStartNoder(n) => startCalls[n] = 1
        /\ initRet = NilErr =>
              \A n \in Nodes : IsInitNoder(n) => initCalls[n] = 1

\* ------------------------------------------------------------------------
\* Properties of the String class
\* ------------------------------------------------------------------------

\* C34: CreateNode of a childless definition whose class is
\* "import:nodes#String" returns no error and a StringNode whose name is the
\* definition's Name and whose value is the definition's Value; String.Init
\* returns an error only when the instance it is given is not a StringNode.
C34_StringInstantiates ==
    /\ strcall.op = "CreateNode" =>
         /\ strcall.err = NilErr
         /\ strcall.node.type = "StringNode"
         /\ strcall.node.name = strcall.def.Name
         /\ strcall.node.value = MakeString(strcall.def.Value)
    /\ strcall.op = "Init" =>
         (strcall.err # NilErr => strcall.self.type # "StringNode")

\* ------------------------------------------------------------------------
\* Properties of paths
\* ------------------------------------------------------------------------

\* The number of parent links from a node up to its root.
RECURSIVE PathDepth(_, _)
PathDepth(nodes, node) ==
    IF nodes[node].NodeParent = NilNode THEN 0
    ELSE 1 + PathDepth(nodes, nodes[node].NodeParent)

\* The names from the root down to a node.
RECURSIVE NamesDownTo(_, _)
NamesDownTo(nodes, node) ==
    IF node = NilNode THEN <<>>
    ELSE Append(NamesDownTo(nodes, nodes[node].NodeParent),
                nodes[node].NodeName.value)

\* C35: GetPath of a node d parent links below its root returns d + 1 names
\* joined by ".": the names from the root down to the node, the root's
\* first, the node's last, every ancestor and the node once.
C35_GetPathRootToNode ==
    pathcall.op = "GetPath" =>
        /\ Len(pathcall.reversed) = PathDepth(pnodes, pathcall.node) + 1
        /\ pathcall.reversed = NamesDownTo(pnodes, pathcall.node)
        /\ pathcall.path =
               Join(NamesDownTo(pnodes, pathcall.node), NodePathSeparator)

====
